---------------------------- MODULE Spec2Model ----------------------------
(***************************************************************************)
(* A model of grove, a manager of one bare clone and its worktrees.        *)
(*                                                                         *)
(* Text is modelled as a sequence of one-character strings, a path as a    *)
(* sequence of components (each a sequence of characters), and the output  *)
(* of a subprocess as a sequence of lines.  Every part of the program has  *)
(* its own specification (SpecPath, SpecCreate, SpecMerge, SpecPrune,      *)
(* SpecPruneMerge, SpecParse, SpecParseBlocks, SpecExtract, SpecDiscover,  *)
(* SpecBootstrap, SpecDuration, SpecCommand, SpecList, SpecRemove,         *)
(* SpecLookup, SpecAddWorktree); the variables of the other parts stay at  *)
(* their idle value.                                                       *)
(***************************************************************************)
EXTENDS Integers, Sequences, FiniteSets, TLC

VARIABLES
    fs,          \* path validator: the filesystem layout [root, nodes]
    gwp,         \* path validator: the last call of get_worktree_path
    cmd,         \* add / pr: the record of one run of the command
    git,         \* merge check: what the git subprocesses answer
    merged,      \* merge check: the last call of is_branch_merged
    opts,        \* prune: the options of the command line
    worktrees,   \* prune: the listing list_worktrees returns
    now,         \* prune: Utc::now() in milliseconds, at each place of the listing
    prune,       \* prune: the record of one run of the command
    porcelain,   \* parser: the text of `git worktree list --porcelain`
    parsed,      \* parser: the last call of parse_worktree_lines
    gitdir,      \* gitdir parser: the gitdir path of a worktree
    extracted,   \* gitdir parser: the last call of extract_bare_clone_from_gitdir
    tree,        \* discovery: the directories, their `.git` entries and what git says of them
    env,         \* discovery: the value of GROVE_REPO
    disc,        \* discovery: the calls of discover_bare_clone and discover_repo so far
    commands,    \* bootstrap: the commands of the configuration
    boot,        \* bootstrap: the run of run_bootstrap_commands so far
    duration_input,  \* duration: the text handed to the duration functions
    duration_calls,  \* duration: the results of normalize_duration and parse_duration on it
    repository,  \* listing: the porcelain text git prints, the metadata of the paths and the clock
    listings,    \* listing: the results of the calls of list_worktrees, in order, and what each met
    lookup_name, \* lookups: the name given to `go` and to `remove`
    lookups      \* lookups: what the two lookups return for the name

pathVars   == <<fs, gwp>>
createVars == <<cmd>>
mergeVars  == <<git, merged>>
pruneVars  == <<opts, worktrees, now, prune>>
parseVars  == <<porcelain, parsed>>
extractVars == <<gitdir, extracted>>
discoverVars == <<tree, env, disc>>
bootVars   == <<commands, boot>>
durationVars == <<duration_input, duration_calls>>
listVars   == <<repository, listings>>
lookupVars == <<lookup_name, lookups>>
vars == <<fs, gwp, cmd, git, merged, opts, worktrees, now, prune, porcelain, parsed,
         gitdir, extracted,
         tree, env, disc,
         commands, boot,
         duration_input, duration_calls,
         repository, listings,
         lookup_name, lookups>>

\* The value of a part's variables under the specification of another part,
\* and of a result before the first call.
Idle == "idle"
NotCalled == [called |-> FALSE]

PathIdle   == fs = Idle /\ gwp = NotCalled
CreateIdle == cmd = NotCalled
MergeIdle  == git = Idle /\ merged = NotCalled
NoOptions  == [given |-> FALSE]
PruneIdle  == opts = NoOptions /\ worktrees = Idle /\ now = <<>> /\ prune = NotCalled
ParseIdle  == porcelain = Idle /\ parsed = NotCalled
ExtractIdle == gitdir = Idle /\ extracted = NotCalled
DiscoverIdle == tree = Idle /\ env = Idle /\ disc = <<>>
BootIdle   == commands = Idle /\ boot = NotCalled
DurationIdle == duration_input = Idle /\ duration_calls = NotCalled
ListIdle   == repository = Idle /\ listings = <<>>
LookupIdle == lookup_name = Idle /\ lookups = NotCalled

(***************************************************************************)
(* Text and sequences                                                      *)
(***************************************************************************)

\* The element of a one-element set; Only({e(x) : x \in {v}}) is e(v) with v
\* evaluated once.
Only(S) == CHOOSE r \in S : TRUE

\* The elements of a function on 1..n as a sequence of values.
AsSeq(f, n) == SubSeq(f, 1, n)

\* All sequences over S of length 0..n.
SeqsUpTo(S, n) == UNION {[1..k -> S] : k \in 0..n}

Range(s) == {s[i] : i \in DOMAIN s}

\* str::starts_with, Path::starts_with: p is a prefix of s.
StartsWith(s, p) ==
    /\ Len(p) <= Len(s)
    /\ \A i \in 1..Len(p) : s[i] = p[i]

\* str::ends_with.
EndsWith(s, p) ==
    /\ Len(p) <= Len(s)
    /\ \A i \in 1..Len(p) : s[Len(s) - Len(p) + i] = p[i]

\* str::contains(pat).
Contains(s, pat) ==
    \E i \in 0..(Len(s) - Len(pat)) : \A j \in 1..Len(pat) : s[i + j] = pat[j]

\* s[n..]: the text from (0-based) offset n on.
DropFirst(s, n) == SubSeq(s, n + 1, Len(s))

RECURSIVE Flatten(_)
Flatten(ss) == IF ss = <<>> THEN <<>> ELSE Head(ss) \o Flatten(Tail(ss))

(***************************************************************************)
(* Path Safety Validator (commands/add.rs, get_worktree_path)              *)
(***************************************************************************)

MaxNameLen == 5
MaxLinkHops == 3

\* The characters a name is drawn from.  "a" is a directory of the project
\* root in every layout, "l" a symbolic link in some; ":" and "*" are two of
\* the prohibited characters.
NameChars == {"a", "l", ".", "/", ":", "*"}
Names == SeqsUpTo(NameChars, MaxNameLen)

\* The characters of `matches!(c, '<' | '>' | ':' | '"' | '|' | '?' | '*')`.
ProhibitedChars == {"<", ">", ":", "\"", "|", "?", "*"}

RECURSIVE SplitAt(_, _, _)
\* s split at every sep; acc is the piece being read.
SplitAt(s, sep, acc) ==
    IF s = <<>> THEN <<acc>>
    ELSE IF Head(s) = sep THEN <<acc>> \o SplitAt(Tail(s), sep, <<>>)
    ELSE SplitAt(Tail(s), sep, Append(acc, Head(s)))

NotEmptyNorCurDir(c) == c # <<>> /\ c # <<".">>

\* Path::components of a path text that is joined behind a root: repeated
\* separators and `.` components are dropped, `..` is kept.
Components(s) == SelectSeq(SplitAt(s, "/", <<>>), NotEmptyNorCurDir)

\* Path::is_absolute (Unix): the text starts with the separator.
IsAbsolute(s) == s # <<>> /\ Head(s) = "/"

\* Path::join: an absolute name replaces the base.
Join(base, s) == IF IsAbsolute(s) THEN Components(s) ELSE base \o Components(s)

Parent(path) == IF path = <<>> THEN <<>> ELSE SubSeq(path, 1, Len(path) - 1)

RECURSIVE Walk(_, _, _, _)
\* The walk of realpath(3) from the resolved directory cur through the
\* components rest: a symbolic link is replaced by its target, `..` goes up.
\* When a component does not exist the walk stops with ok = FALSE and path
\* holds the place the rest of the walk names.
Walk(cur, rest, nodes, hops) ==
    IF rest = <<>> THEN [ok |-> TRUE, path |-> cur]
    ELSE LET c == Head(rest)
             next == Append(cur, c)
         IN  IF c = <<".">> THEN Walk(cur, Tail(rest), nodes, hops)
             ELSE IF c = <<".", ".">> THEN Walk(Parent(cur), Tail(rest), nodes, hops)
             ELSE IF next \notin DOMAIN nodes
                  THEN [ok |-> FALSE, path |-> next \o Tail(rest)]
             ELSE IF nodes[next].kind = "link"
                  THEN IF hops = 0
                       THEN [ok |-> FALSE, path |-> next \o Tail(rest)]
                       ELSE Walk(<<>>, nodes[next].to \o Tail(rest), nodes, hops - 1)
             ELSE Walk(next, Tail(rest), nodes, hops)

\* fs::canonicalize: the symlink-free absolute path, or an error when a
\* component does not exist.
Canonicalize(path, nodes) == Walk(<<>>, path, nodes, MaxLinkHops)

GwpErr(kind, ops)  == [ok |-> FALSE, err |-> kind, path |-> <<>>, fsops |-> ops]
GwpOk(path, ops)   == [ok |-> TRUE, err |-> "", path |-> path, fsops |-> ops]

\* get_worktree_path without the check of `..` and absolute names.
GetWorktreePathNoTraversalCheck(branch_name, project_root, nodes) ==
    IF \E i \in DOMAIN branch_name : branch_name[i] \in ProhibitedChars
    THEN GwpErr("prohibited", <<>>)
    ELSE LET worktree_path == Join(project_root, branch_name)
             joined == Canonicalize(worktree_path, nodes)
             root == Canonicalize(project_root, nodes)
             resolved_root == IF root.ok THEN root.path ELSE project_root
             resolved_path == IF joined.ok THEN joined.path
                              ELSE Join(resolved_root, branch_name)
             ops == IF joined.ok
                    THEN <<"canonicalize joined", "canonicalize root">>
                    ELSE <<"canonicalize joined", "canonicalize root",
                           "canonicalize root">>
         IN  IF ~StartsWith(resolved_path, resolved_root)
             THEN GwpErr("outside", ops)
             ELSE GwpOk(resolved_path, ops)

\* get_worktree_path: [ok, err, path, fsops], fsops the filesystem calls made.
GetWorktreePath(branch_name, project_root, nodes) ==
    IF Contains(branch_name, <<".", ".">>) \/ IsAbsolute(branch_name)
    THEN GwpErr("traversal", <<>>)
    ELSE IF \E i \in DOMAIN branch_name : branch_name[i] \in ProhibitedChars
    THEN GwpErr("prohibited", <<>>)
    ELSE LET worktree_path == Join(project_root, branch_name)
             joined == Canonicalize(worktree_path, nodes)
             root == Canonicalize(project_root, nodes)
             resolved_root == IF root.ok THEN root.path ELSE project_root
             resolved_path == IF joined.ok THEN joined.path
                              ELSE Join(resolved_root, branch_name)
             ops == IF joined.ok
                    THEN <<"canonicalize joined", "canonicalize root">>
                    ELSE <<"canonicalize joined", "canonicalize root",
                           "canonicalize root">>
         IN  IF ~StartsWith(resolved_path, resolved_root)
             THEN GwpErr("outside", ops)
             ELSE GwpOk(resolved_path, ops)

\* Filesystem layouts.  /r is the project root, /o a directory outside it.
Dir == [kind |-> "dir"]
Link(to) == [kind |-> "link", to |-> to]
pR == <<"r">>
pO == <<"o">>
pP == <<"p">>
pA == <<"a">>
pL == <<"l">>

\* a plain project root with one worktree directory
LayoutPlain ==
    [root |-> <<pR>>,
     nodes |-> (<<pR>> :> Dir) @@ (<<pR, pA>> :> Dir) @@ (<<pO>> :> Dir)]
\* /r/l is a link to a directory outside the root
LayoutLinkOut ==
    [root |-> <<pR>>,
     nodes |-> (<<pR>> :> Dir) @@ (<<pR, pA>> :> Dir) @@ (<<pO>> :> Dir)
               @@ (<<pR, pL>> :> Link(<<pO>>))]
\* as LayoutLinkOut, and the directory outside has a child a
LayoutLinkOutChild ==
    [root |-> <<pR>>,
     nodes |-> (<<pR>> :> Dir) @@ (<<pO>> :> Dir) @@ (<<pO, pA>> :> Dir)
               @@ (<<pR, pL>> :> Link(<<pO>>))]
\* /r/l is a link to a directory inside the root
LayoutLinkIn ==
    [root |-> <<pR>>,
     nodes |-> (<<pR>> :> Dir) @@ (<<pR, pA>> :> Dir) @@ (<<pO>> :> Dir)
               @@ (<<pR, pL>> :> Link(<<pR, pA>>))]
\* the project root is given by a path /p that is a link to /r
LayoutRootLink ==
    [root |-> <<pP>>,
     nodes |-> (<<pR>> :> Dir) @@ (<<pR, pA>> :> Dir) @@ (<<pO>> :> Dir)
               @@ (<<pP>> :> Link(<<pR>>))]

Layouts == {LayoutPlain, LayoutLinkOut, LayoutLinkOutChild, LayoutLinkIn,
            LayoutRootLink}

InitPath ==
    /\ fs \in Layouts
    /\ gwp = NotCalled
    /\ CreateIdle /\ MergeIdle /\ PruneIdle /\ ParseIdle /\ ExtractIdle /\ DiscoverIdle /\ BootIdle /\ DurationIdle /\ ListIdle /\ LookupIdle

\* One call get_worktree_path(name, project_root).
GetWorktreePathCall ==
    /\ ~gwp.called
    /\ \E n \in Names :
          gwp' = [called |-> TRUE, name |-> n,
                  res |-> GetWorktreePath(n, fs.root, fs.nodes)]
    /\ UNCHANGED <<fs, createVars, mergeVars, pruneVars, parseVars, extractVars, discoverVars, bootVars, durationVars, listVars, lookupVars>>

NextPath == GetWorktreePathCall

SpecPath == InitPath /\ [][NextPath]_vars

\* The place a path names once the links on it are followed: the links of
\* its existing part resolved, the part that does not exist yet appended.
Denotes(path, nodes) == Walk(<<>>, path, nodes, MaxLinkHops).path

CanonicalRoot == Canonicalize(fs.root, fs.nodes).path

\* C1: whenever get_worktree_path returns Ok(p), the place p denotes after
\* the symbolic links are resolved is the canonical project root or lies
\* below it.
C1_ResultInsideRoot ==
    (gwp.called /\ gwp.res.ok) =>
        StartsWith(Denotes(gwp.res.path, fs.nodes), CanonicalRoot)

NameHasDotDot ==
    \E i \in 1..(Len(gwp.name) - 1) : gwp.name[i] = "." /\ gwp.name[i + 1] = "."
NameIsAbsolute == Len(gwp.name) > 0 /\ gwp.name[1] = "/"
NameHasProhibited ==
    \E i \in 1..Len(gwp.name) : gwp.name[i] \in {"<", ">", ":", "\"", "|", "?", "*"}

\* C2: a name that contains `..`, is absolute or contains a prohibited
\* character is rejected with no filesystem call made; `..` and absolute
\* names get the traversal error, also when they hold a prohibited character.
C2_RejectedBeforeFilesystem ==
    gwp.called =>
        /\ (NameHasDotDot \/ NameIsAbsolute \/ NameHasProhibited) =>
              (~gwp.res.ok /\ gwp.res.fsops = <<>>)
        /\ (NameHasDotDot \/ NameIsAbsolute) => gwp.res.err = "traversal"
        /\ (NameHasProhibited /\ ~NameHasDotDot /\ ~NameIsAbsolute) =>
              gwp.res.err = "prohibited"

\* C2 witness: a name with both `..` and a prohibited character was rejected
\* with the traversal error.
C2_Witness ==
    /\ gwp.called
    /\ NameHasDotDot /\ NameHasProhibited
    /\ ~gwp.res.ok /\ gwp.res.err = "traversal"

(***************************************************************************)
(* Worktree creation: the add and pr commands                              *)
(* (commands/add.rs run, commands/pr.rs run, git/worktree_manager.rs)      *)
(*                                                                         *)
(* A reference is a text of atoms: a word without a separator ("refs",     *)
(* "origin", ...) or the separator "/".                                    *)
(***************************************************************************)

MaxAddNameLen == 2
MaxHeadRefLen == 2

Ok(v) == [ok |-> TRUE, value |-> v]
Err(e) == [ok |-> FALSE, value |-> e]

None == <<"None">>
Some(x) == <<"Some", x>>
IsSome(o) == o[1] = "Some"
Unwrap(o) == o[2]

\* str::replace(pat, rep): every non-overlapping match, from the left.
RECURSIVE ReplaceAll(_, _, _)
ReplaceAll(s, pat, rep) ==
    IF s = <<>> THEN <<>>
    ELSE IF StartsWith(s, pat) THEN rep \o ReplaceAll(DropFirst(s, Len(pat)), pat, rep)
    ELSE <<Head(s)>> \o ReplaceAll(Tail(s), pat, rep)

\* str::trim_matches(c)
RECURSIVE TrimStartMatches(_, _)
TrimStartMatches(s, c) ==
    IF s # <<>> /\ Head(s) = c THEN TrimStartMatches(Tail(s), c) ELSE s
RECURSIVE TrimEndMatches(_, _)
TrimEndMatches(s, c) ==
    IF s # <<>> /\ s[Len(s)] = c
    THEN TrimEndMatches(SubSeq(s, 1, Len(s) - 1), c) ELSE s
TrimMatches(s, c) == TrimEndMatches(TrimStartMatches(s, c), c)

\* First index of atom c in s, 0 when absent.
IndexOf(s, c) ==
    IF \E i \in DOMAIN s : s[i] = c
    THEN CHOOSE i \in DOMAIN s : s[i] = c /\ \A j \in 1..(i - 1) : s[j] # c
    ELSE 0

RefsRemotes == <<"refs", "/", "remotes", "/">>

\* parse_remote_tracking_reference: Some(<<remote, branch>>) or None.
ParseRemoteTrackingReference(reference) ==
    LET stripped == StartsWith(reference, RefsRemotes)
        normalized == IF stripped THEN DropFirst(reference, Len(RefsRemotes))
                      ELSE reference
        at == IndexOf(normalized, "/")
        remote == SubSeq(normalized, 1, at - 1)
        branch == DropFirst(normalized, at)
    IN  IF ~stripped /\ StartsWith(reference, <<"refs", "/">>) THEN None
        ELSE IF at = 0 THEN None
        ELSE IF remote = <<>> \/ branch = <<>> THEN None
        ELSE Some(<<remote, branch>>)

\* tracked_branch_name: the branch a tracking reference names.
TrackedBranchName(track_ref) ==
    LET parsed_ref == ParseRemoteTrackingReference(track_ref)
    IN  IF IsSome(parsed_ref) THEN Some(Unwrap(parsed_ref)[2]) ELSE None

\* resolve_target_branch
ResolveTargetBranch(name, track) ==
    IF IsSome(track)
    THEN LET b == TrackedBranchName(Unwrap(track))
         IN  IF IsSome(b) THEN [ok |-> TRUE, branch |-> Unwrap(b)]
             ELSE [ok |-> FALSE, branch |-> <<>>]
    ELSE [ok |-> TRUE, branch |-> name]

GitRevParse(ref) == [op |-> "rev-parse --verify", path |-> <<>>, args |-> <<ref>>]
GitFetch(remote, refspec) == [op |-> "fetch", path |-> <<>>, args |-> <<remote, refspec>>]
GitWorktreeAdd(path, args) == [op |-> "worktree add", path |-> path, args |-> args]

\* What git answers during one add_worktree: whether the tracking reference
\* exists as given, under its canonical name, whether the fetch succeeds,
\* whether the reference exists after it, whether `worktree add` succeeds.
GitAddAnswers ==
    [refExists : BOOLEAN, canonicalExists : BOOLEAN, fetchOk : BOOLEAN,
     existsAfterFetch : BOOLEAN, addOk : BOOLEAN]

\* The answers of a call that asks about no reference.
AddAnswer(addOk) ==
    [refExists |-> FALSE, canonicalExists |-> FALSE, fetchOk |-> FALSE,
     existsAfterFetch |-> FALSE, addOk |-> addOk]

\* ensure_tracking_reference that takes a fetch that succeeded for the
\* reference being there.
EnsureTrackingReferenceTrustingFetch(track_ref, ans) ==
    LET parsed_ref == ParseRemoteTrackingReference(track_ref)
        remote == Unwrap(parsed_ref)[1]
        branch == Unwrap(parsed_ref)[2]
        canonical_ref == RefsRemotes \o remote \o <<"/">> \o branch
        fetch_refspec == branch \o <<":">> \o canonical_ref
        first == <<GitRevParse(track_ref)>>
        second == first \o <<GitRevParse(canonical_ref)>>
        third == second \o <<GitFetch(remote, fetch_refspec)>>
    IN  IF ans.refExists THEN [ok |-> TRUE, log |-> first]
        ELSE IF ~IsSome(parsed_ref) THEN [ok |-> FALSE, log |-> first]
        ELSE IF ans.canonicalExists THEN [ok |-> TRUE, log |-> second]
        ELSE [ok |-> ans.fetchOk, log |-> third]

\* ensure_tracking_reference: [ok, log], log the git calls made.
EnsureTrackingReference(track_ref, ans) ==
    LET parsed_ref == ParseRemoteTrackingReference(track_ref)
        remote == Unwrap(parsed_ref)[1]
        branch == Unwrap(parsed_ref)[2]
        canonical_ref == RefsRemotes \o remote \o <<"/">> \o branch
        fetch_refspec == branch \o <<":">> \o canonical_ref
        first == <<GitRevParse(track_ref)>>
        second == first \o <<GitRevParse(canonical_ref)>>
        third == second \o <<GitFetch(remote, fetch_refspec)>>
    IN  IF ans.refExists THEN [ok |-> TRUE, log |-> first]
        ELSE IF ~IsSome(parsed_ref) THEN [ok |-> FALSE, log |-> first]
        ELSE IF ans.canonicalExists THEN [ok |-> TRUE, log |-> second]
        ELSE IF ~ans.fetchOk THEN [ok |-> FALSE, log |-> third]
        ELSE [ok |-> ans.existsAfterFetch,
              log |-> third \o <<GitRevParse(track_ref)>>
                      \o (IF ans.existsAfterFetch THEN <<>>
                          ELSE <<GitRevParse(canonical_ref)>>)]

\* build_add_worktree_args, after the words `worktree add`.
BuildAddWorktreeArgs(worktree_path, branch_name, create_branch, track) ==
    IF create_branch
    THEN <<"-b", branch_name>>
         \o (IF IsSome(track) THEN <<"--track">> ELSE <<>>)
         \o <<worktree_path>>
         \o (IF IsSome(track) THEN <<Unwrap(track)>> ELSE <<>>)
    ELSE <<worktree_path, branch_name>>

\* add_worktree: [ok, log].
AddWorktree(worktree_path, branch_name, create_branch, track, ans) ==
    LET ensured == IF create_branch /\ IsSome(track)
                   THEN EnsureTrackingReference(Unwrap(track), ans)
                   ELSE [ok |-> TRUE, log |-> <<>>]
        args == BuildAddWorktreeArgs(worktree_path, branch_name, create_branch, track)
    IN  IF ~ensured.ok THEN [ok |-> FALSE, log |-> ensured.log]
        ELSE [ok |-> ans.addOk,
              log |-> Append(ensured.log, GitWorktreeAdd(worktree_path, args))]

AddNames == SeqsUpTo(NameChars, MaxAddNameLen)
\* A name generate_default_worktree_name produces.
GeneratedNames == {<<"a", "-", "l">>}
TrackRefs == {<<"origin", "/", "x">>,
              <<"refs", "/", "remotes", "/", "origin", "/", "x">>,
              <<"refs", "/", "heads", "/", "x">>,
              <<"origin">>}

CmdResult(kind, input, validated, log, exit) ==
    [called |-> TRUE, kind |-> kind, input |-> input, validated |-> validated,
     gitlog |-> log, exit |-> exit]

\* commands/add.rs run: one run of `grove add [name] [--track ref]`.
AddRun ==
    /\ ~cmd.called
    /\ \E discovered \in BOOLEAN, name \in {None} \cup {Some(n) : n \in AddNames},
          generated \in {None} \cup {Some(n) : n \in GeneratedNames},
          track \in {None} \cup {Some(t) : t \in TrackRefs},
          existingOk \in BOOLEAN, new \in GitAddAnswers :
          LET input == [name |-> name, track |-> track, discovered |-> discovered,
                        generated |-> generated]
              spec == IF IsSome(name) THEN name ELSE generated
              directory_name == Unwrap(spec)
              worktree_path == GetWorktreePath(directory_name, fs.root, fs.nodes)
              validated == {worktree_path.path}
              target_branch == ResolveTargetBranch(directory_name, track)
              first == AddWorktree(worktree_path.path, target_branch.branch,
                                   FALSE, track, AddAnswer(existingOk))
              second == AddWorktree(worktree_path.path, target_branch.branch,
                                    TRUE, track, new)
          IN  cmd' =
                IF ~discovered THEN CmdResult("add", input, {}, <<>>, "error")
                ELSE IF ~IsSome(spec) THEN CmdResult("add", input, {}, <<>>, "error")
                ELSE IF ~worktree_path.ok
                     THEN CmdResult("add", input, {}, <<>>, "error")
                ELSE IF ~target_branch.ok
                     THEN CmdResult("add", input, validated, <<>>, "error")
                ELSE IF first.ok
                     THEN CmdResult("add", input, validated, first.log, "created")
                ELSE IF second.ok
                     THEN CmdResult("add", input, validated,
                                    first.log \o second.log, "created new branch")
                ELSE CmdResult("add", input, validated,
                               first.log \o second.log, "error")
    /\ UNCHANGED <<fs, gwp, mergeVars, pruneVars, parseVars, extractVars, discoverVars, bootVars, durationVars, listVars, lookupVars>>

Digits == <<"0", "1", "2", "3", "4", "5", "6", "7", "8", "9">>
IsDigit(c) == \E i \in DOMAIN Digits : Digits[i] = c
DigitVal(c) == (CHOOSE i \in DOMAIN Digits : Digits[i] = c) - 1

RECURSIVE DecimalValue(_)
DecimalValue(s) ==
    IF s = <<>> THEN 0
    ELSE 10 * DecimalValue(SubSeq(s, 1, Len(s) - 1)) + DigitVal(s[Len(s)])

\* str::parse::<u64>: Some(value) for a text of digits, else None.
ParseU64(s) ==
    IF s # <<>> /\ \A i \in DOMAIN s : IsDigit(s[i]) THEN Some(DecimalValue(s)) ELSE None

RECURSIVE U64ToString(_)
U64ToString(n) ==
    IF n < 10 THEN <<Digits[n + 1]>> ELSE Append(U64ToString(n \div 10), Digits[(n % 10) + 1])

IsAlphanumeric(c) == c \in {"x", "y", "p", "r"} \/ IsDigit(c)

\* The name pr.rs makes of the PR's head branch: every character that is not
\* alphanumeric, `-` or `_` becomes `-`, `--` becomes `-`, and `-` is trimmed
\* from both ends.
CleanBranchName(branch_name) ==
    LET mapped == [i \in DOMAIN branch_name |->
                      IF IsAlphanumeric(branch_name[i]) \/ branch_name[i] \in {"-", "_"}
                      THEN branch_name[i] ELSE "-"]
    IN  TrimMatches(ReplaceAll(mapped, <<"-", "-">>, <<"-">>), "-")

PrNumbers == {<<"1">>, <<"0">>, <<"x">>, <<"0", "7">>, <<>>}
HeadRefChars == {"x", "/", ".", "-"}
HeadRefs == SeqsUpTo(HeadRefChars, MaxHeadRefLen)

\* commands/pr.rs run: one run of `grove pr <number>`.
PrRun ==
    /\ ~cmd.called
    /\ \E pr_number \in PrNumbers, ghInstalled \in BOOLEAN, discovered \in BOOLEAN,
          prInfo \in {None} \cup {Some(h) : h \in HeadRefs},
          alreadyThere \in BOOLEAN, fetchOk \in BOOLEAN, addOk \in BOOLEAN :
          LET input == [name |-> pr_number, track |-> None]
              pr_num == ParseU64(pr_number)
              num == U64ToString(Unwrap(pr_num))
              branch_name == Unwrap(prInfo)
              cleaned == CleanBranchName(branch_name)
              worktree_name == <<"p", "r", "-">> \o num \o <<"-">> \o cleaned
              worktree_path == Join(fs.root, worktree_name)
              fetch == <<GitFetch(<<"origin">>,
                                  <<"pull", "/">> \o num \o <<"/", "head", ":", "pr", "-">> \o num)>>
              added == AddWorktree(worktree_path, <<"pr", "-">> \o num, FALSE, None,
                                   AddAnswer(addOk))
          IN  cmd' =
                IF ~IsSome(pr_num) \/ Unwrap(pr_num) = 0
                THEN CmdResult("pr", input, {}, <<>>, "error")
                ELSE IF ~ghInstalled \/ ~discovered
                     THEN CmdResult("pr", input, {}, <<>>, "error")
                ELSE IF ~IsSome(prInfo) \/ branch_name = <<>>
                     THEN CmdResult("pr", input, {}, <<>>, "error")
                ELSE IF alreadyThere
                     THEN CmdResult("pr", input, {}, <<>>, "exists")
                ELSE IF ~fetchOk THEN CmdResult("pr", input, {}, fetch, "error")
                ELSE CmdResult("pr", input, {}, fetch \o added.log,
                               IF added.ok THEN "created" ELSE "error")
    /\ UNCHANGED <<fs, gwp, mergeVars, pruneVars, parseVars, extractVars, discoverVars, bootVars, durationVars, listVars, lookupVars>>

\* A git URL is a sequence of parts: a scheme (`https://`, `git@`, ...),
\* `/`, `:`, the suffix `.git`, `..` and plain names.
\* is_valid_git_url: `^https?://.+/.+$`, `^git@[^:]+:.+$` or `^ssh://.+/.+$`.
IsValidGitUrl(url) ==
    /\ url # <<>>
    /\ \/ /\ url[1] \in {"https://", "http://", "ssh://"}
          /\ \E i \in 3..(Len(url) - 1) : url[i] = "/"
       \/ /\ url[1] = "git@"
          /\ \E i \in 3..(Len(url) - 1) :
                url[i] = ":" /\ \A j \in 2..(i - 1) : url[j] # ":"

\* The parts that end in a slash.
EndsInSlash(part) == part \in {"/", "https://", "http://", "ssh://"}

\* Path::file_name as text: the last component, unless it is `..`.
FileName(path) ==
    LET n == CHOOSE k \in 0..Len(path) :
                 /\ \A j \in (k + 1)..Len(path) : path[j] = "/"
                 /\ k = 0 \/ path[k] # "/"
        stripped == SubSeq(path, 1, n)
        seps == {i \in DOMAIN stripped : EndsInSlash(stripped[i])}
        last == IF seps = {} THEN stripped
                ELSE DropFirst(stripped, CHOOSE i \in seps : \A j \in seps : j <= i)
    IN  IF last = <<"..">> THEN <<>> ELSE last

\* extract_repo_name
ExtractRepoName(git_url) ==
    LET clean_url == IF EndsWith(git_url, <<".git">>)
                     THEN SubSeq(git_url, 1, Len(git_url) - 1) ELSE git_url
        url_path == IF StartsWith(clean_url, <<"git@">>) /\ IndexOf(clean_url, ":") > 0
                    THEN DropFirst(clean_url,
                                   CHOOSE i \in DOMAIN clean_url :
                                       /\ clean_url[i] = ":"
                                       /\ \A j \in (i + 1)..Len(clean_url) : clean_url[j] # ":")
                    ELSE clean_url
        repo_name == FileName(url_path)
    IN  IF StartsWith(clean_url, <<"git@">>) /\ IndexOf(clean_url, ":") = 0
        THEN Err("Invalid SSH URL format")
        ELSE IF repo_name = <<>> \/ repo_name = <<".">> \/ repo_name = <<"..">>
        THEN Err("Could not extract valid repository name")
        ELSE Ok(repo_name)

GitUrls ==
    {<<>>, <<"r">>, <<"https://", "h">>, <<"https://", "h", "/", "r", ".git">>,
     <<"http://", "h", "/", "u", "/", "r">>, <<"https://", "h", "/", "..">>,
     <<"git@", "h", ":", "u", "/", "r", ".git">>, <<"git@", "h", ":", ".git">>,
     <<"git@", "h">>, <<"ssh://", "h", "/", "r", ".git">>, <<"ssh://", "h">>}

CreateDirAll(path) == [op |-> "create_dir_all", path |-> path, args |-> <<>>]
RemoveDirAll(path) == [op |-> "remove_dir_all", path |-> path, args |-> <<>>]
GitCloneBare(git_url, target_dir) ==
    [op |-> "clone", path |-> target_dir, args |-> <<"--bare", git_url>>]
GitConfig(target_dir) ==
    [op |-> "config", path |-> target_dir,
     args |-> <<"remote.origin.fetch", "+refs/heads/*:refs/remotes/origin/*">>]

\* clone_bare_repository, worktree_manager.rs 126-154: the clone and, behind
\* a clone that succeeded, the configuration of the fetch refspec.
CloneOutcomes == {"cloned", "clone failed", "config failed"}
CloneBareRepository(git_url, target_dir, outcome) ==
    IF outcome = "clone failed"
    THEN [ok |-> FALSE, log |-> <<GitCloneBare(git_url, target_dir)>>]
    ELSE [ok |-> outcome = "cloned",
          log |-> <<GitCloneBare(git_url, target_dir), GitConfig(target_dir)>>]

\* init.rs 8-59 with the directory made before the URL is looked at.
InitRunDirectoryFirst ==
    /\ ~cmd.called
    /\ \E git_url \in GitUrls, existing \in BOOLEAN, cloned \in BOOLEAN :
          LET input == [git_url |-> git_url, existing |-> existing]
              repo_name == ExtractRepoName(git_url)
              made == IF repo_name.ok THEN <<CreateDirAll(repo_name.value)>> ELSE <<>>
          IN  cmd' =
                IF existing THEN CmdResult("init", input, {}, <<>>, "error")
                ELSE IF ~repo_name.ok THEN CmdResult("init", input, {}, <<>>, "error")
                ELSE IF ~IsValidGitUrl(git_url)
                THEN CmdResult("init", input, {}, made, "error")
                ELSE CmdResult("init", input, {},
                               made \o <<GitCloneBare(git_url,
                                            repo_name.value \o <<"/">> \o repo_name.value
                                                \o <<".git">>)>>,
                               IF cloned THEN "initialized" ELSE "error")
    /\ UNCHANGED <<fs, gwp, mergeVars, pruneVars, parseVars, extractVars, discoverVars,
                   bootVars, durationVars, listVars, lookupVars>>

\* init.rs 8-66 where a failed clone always removes the project directory.
InitRunAlwaysCleaning ==
    /\ ~cmd.called
    /\ \E git_url \in GitUrls, existing \in BOOLEAN, dir_exists \in BOOLEAN,
          dir_made \in BOOLEAN, cloned \in CloneOutcomes :
       \E bare_exists \in IF dir_exists THEN BOOLEAN ELSE {FALSE} :
          LET input == [git_url |-> git_url, existing |-> existing,
                        dir_exists |-> dir_exists, bare_exists |-> bare_exists]
              repo_name == ExtractRepoName(git_url)
              bare_repo_dir == repo_name.value \o <<"/">> \o repo_name.value \o <<".git">>
              made == IF dir_exists THEN <<>> ELSE <<CreateDirAll(repo_name.value)>>
              clone == CloneBareRepository(git_url, bare_repo_dir, cloned)
          IN  cmd' =
                IF existing THEN CmdResult("init", input, {}, <<>>, "error")
                ELSE IF ~IsValidGitUrl(git_url) THEN CmdResult("init", input, {}, <<>>, "error")
                ELSE IF ~repo_name.ok THEN CmdResult("init", input, {}, <<>>, "error")
                ELSE IF ~dir_exists /\ ~dir_made
                THEN CmdResult("init", input, {}, made, "error")
                ELSE IF bare_exists
                THEN CmdResult("init", input, {}, made, "error")
                ELSE IF ~clone.ok
                THEN CmdResult("init", input, {},
                               made \o clone.log \o <<RemoveDirAll(repo_name.value)>>,
                               "error")
                ELSE CmdResult("init", input, {}, made \o clone.log, "initialized")
    /\ UNCHANGED <<fs, gwp, mergeVars, pruneVars, parseVars, extractVars, discoverVars,
                   bootVars, durationVars, listVars, lookupVars>>

\* One run of `grove init <git_url>`: `existing` is whether find_grove_repo
\* finds a repository, dir_exists and bare_exists whether <name> and
\* <name>/<name>.git are there before the run, the other choices what the
\* making of the directory and the clone turn out to be.
InitRun ==
    /\ ~cmd.called
    /\ \E git_url \in GitUrls, existing \in BOOLEAN, dir_exists \in BOOLEAN,
          dir_made \in BOOLEAN, cloned \in CloneOutcomes :
       \E bare_exists \in IF dir_exists THEN BOOLEAN ELSE {FALSE} :
          LET input == [git_url |-> git_url, existing |-> existing,
                        dir_exists |-> dir_exists, bare_exists |-> bare_exists]
              repo_name == ExtractRepoName(git_url)
              bare_repo_dir == repo_name.value \o <<"/">> \o repo_name.value \o <<".git">>
              made == IF dir_exists THEN <<>> ELSE <<CreateDirAll(repo_name.value)>>
              clone == CloneBareRepository(git_url, bare_repo_dir, cloned)
          IN  cmd' =
                IF existing THEN CmdResult("init", input, {}, <<>>, "error")
                ELSE IF ~IsValidGitUrl(git_url) THEN CmdResult("init", input, {}, <<>>, "error")
                ELSE IF ~repo_name.ok THEN CmdResult("init", input, {}, <<>>, "error")
                ELSE IF ~dir_exists /\ ~dir_made
                THEN CmdResult("init", input, {}, made, "error")
                ELSE IF bare_exists
                THEN CmdResult("init", input, {}, made, "error")
                ELSE IF ~clone.ok
                THEN CmdResult("init", input, {},
                               made \o clone.log \o
                               (IF dir_exists THEN <<>> ELSE <<RemoveDirAll(repo_name.value)>>),
                               "error")
                ELSE CmdResult("init", input, {}, made \o clone.log, "initialized")
    /\ UNCHANGED <<fs, gwp, mergeVars, pruneVars, parseVars, extractVars, discoverVars,
                   bootVars, durationVars, listVars, lookupVars>>

InitCreate ==
    /\ fs \in Layouts
    /\ gwp = NotCalled
    /\ cmd = NotCalled
    /\ MergeIdle /\ PruneIdle /\ ParseIdle /\ ExtractIdle /\ DiscoverIdle /\ BootIdle /\ DurationIdle /\ ListIdle /\ LookupIdle

NextCreate == AddRun \/ PrRun \/ InitRun

SpecCreate == InitCreate /\ [][NextCreate]_vars

\* C3: every `git worktree add` a command issues names a directory that
\* get_worktree_path returned during that run; no command joins the name onto
\* the project root on its own.
C3_EveryAddIsValidated ==
    cmd.called =>
        \A i \in DOMAIN cmd.gitlog :
            cmd.gitlog[i].op = "worktree add" => cmd.gitlog[i].path \in cmd.validated

(***************************************************************************)
(* Merge decision (git/worktree_manager.rs, is_branch_merged)              *)
(*                                                                         *)
(* git = [merged, diff, rdiff]: the answer to `git branch --merged <base>`,*)
(* and per branch the answers to `git diff --name-only <base>...<branch>`  *)
(* and to `git diff --name-only <base> <branch> -- <files>`.  An answer is *)
(* [ok, out]: the exit status and the lines of standard output.            *)
(***************************************************************************)

MaxMergedLines == 2
MaxDiffLines == 2

GitOk(lines) == [ok |-> TRUE, out |-> lines]
GitErr == [ok |-> FALSE, out |-> <<>>]

\* Result::unwrap_or_default on the answer of git_raw.
UnwrapOrDefault(answer) == IF answer.ok THEN answer.out ELSE <<>>

IsWhitespace(c) == c \in {" ", "\n", "\r", "\t"}

RECURSIVE TrimStart(_)
TrimStart(s) == IF s # <<>> /\ IsWhitespace(Head(s)) THEN TrimStart(Tail(s)) ELSE s

RECURSIVE TrimEnd(_)
TrimEnd(s) ==
    IF s # <<>> /\ IsWhitespace(s[Len(s)]) THEN TrimEnd(SubSeq(s, 1, Len(s) - 1)) ELSE s

\* str::trim: the blanks and line ends at both ends are dropped.
Trim(s) == Only({TrimEnd(x) : x \in {TrimStart(s)}})

\* str::trim_start_matches(pat) for a pattern of several characters.
RECURSIVE TrimStartPattern(_, _)
TrimStartPattern(s, pat) ==
    IF StartsWith(s, pat) THEN TrimStartPattern(DropFirst(s, Len(pat)), pat) ELSE s

NotEmpty(line) == line # <<>>


\* is_squash_merged
IsSquashMerged(g, branch) ==
    LET branch_files == UnwrapOrDefault(g.diff[branch])
        files == SelectSeq(branch_files, NotEmpty)
        diff == UnwrapOrDefault(g.rdiff[branch])
    IN  IF files = <<>> THEN Ok(TRUE)
        ELSE Ok(\A i \in DOMAIN diff : Trim(diff[i]) = <<>>)

\* is_branch_merged with the squash-merge check left out.
IsBranchMergedNoSquash(g, branch) ==
    IF ~g.merged.ok THEN Err("Failed to check if branch is merged")
    ELSE LET cleaned == [i \in DOMAIN g.merged.out |->
                            Trim(TrimStartPattern(Trim(g.merged.out[i]), <<"*", " ">>))]
             merged_branches == SelectSeq(cleaned, NotEmpty)
         IN  IF \E i \in DOMAIN merged_branches : merged_branches[i] = branch
             THEN Ok(TRUE)
             ELSE Ok(FALSE)

\* is_branch_merged
IsBranchMerged(g, branch) ==
    IF ~g.merged.ok THEN Err("Failed to check if branch is merged")
    ELSE LET cleaned == [i \in DOMAIN g.merged.out |->
                            Trim(TrimStartPattern(Trim(g.merged.out[i]), <<"*", " ">>))]
             merged_branches == SelectSeq(cleaned, NotEmpty)
         IN  IF \E i \in DOMAIN merged_branches : merged_branches[i] = branch
             THEN Ok(TRUE)
             ELSE IsSquashMerged(g, branch)

\* Branch names, and the lines `git branch --merged` prints for them: two
\* blanks, or `* ` for the current branch, or `+ ` for a branch checked out
\* in a linked worktree, before the name.
bF == <<"f">>
bG == <<"g">>
bK == <<"k">>
bMain == <<"main">>
bMaster == <<"master">>
BranchMarkers == {<<" ", " ">>, <<"*", " ">>, <<"+", " ">>}
MergedLines == {mk \o b : mk \in BranchMarkers, b \in {bF}} \cup {<<" ", " ">> \o bG, <<>>}
MergedAnswers == {GitErr} \cup {GitOk(o) : o \in SeqsUpTo(MergedLines, MaxMergedLines)}
DiffFileLines == {<<"a">>, <<"b">>, <<>>}
DiffAnswers == {GitErr} \cup {GitOk(o) : o \in SeqsUpTo(DiffFileLines, MaxDiffLines)}

\* The branch is on a line of the listing, behind any of the three markers.
ListedAsMerged(answer, branch) ==
    /\ answer.ok
    /\ \E i \in DOMAIN answer.out, mk \in BranchMarkers : answer.out[i] = mk \o branch

\* What git can answer about one branch: a branch in the merged listing is
\* an ancestor of the base, so its three-dot diff is empty; and the diff
\* restricted to some files names only files among them.
GitCoherent(g, branch) ==
    /\ (ListedAsMerged(g.merged, branch) /\ g.diff[branch].ok) =>
          SelectSeq(g.diff[branch].out, NotEmpty) = <<>>
    /\ (g.diff[branch].ok /\ g.rdiff[branch].ok) =>
          Range(SelectSeq(g.rdiff[branch].out, NotEmpty)) \subseteq Range(g.diff[branch].out)

GitWorlds(branches) ==
    {g \in [merged : MergedAnswers, diff : [branches -> DiffAnswers],
            rdiff : [branches -> DiffAnswers]] :
        \A b \in branches : GitCoherent(g, b)}

InitMerge ==
    /\ \E b \in {bF, bG} : git \in GitWorlds({b})
    /\ merged = NotCalled
    /\ PathIdle /\ CreateIdle /\ PruneIdle /\ ParseIdle /\ ExtractIdle /\ DiscoverIdle /\ BootIdle /\ DurationIdle /\ ListIdle /\ LookupIdle

\* One call is_branch_merged(branch, base).
IsBranchMergedCall ==
    /\ ~merged.called
    /\ \E b \in DOMAIN git.diff :
          merged' = [called |-> TRUE, branch |-> b, res |-> IsBranchMerged(git, b)]
    /\ UNCHANGED <<git, pathVars, createVars, pruneVars, parseVars, extractVars, discoverVars, bootVars, durationVars, listVars, lookupVars>>

NextMerge == IsBranchMergedCall

SpecMerge == InitMerge /\ [][NextMerge]_vars

\* (a) the branch is listed by `git branch --merged base`
MergedA == ListedAsMerged(git.merged, merged.branch)
\* (b) the three-dot diff lists zero files (a diff that failed lists none)
MergedB ==
    \A i \in DOMAIN git.diff[merged.branch].out :
        ~git.diff[merged.branch].ok \/ git.diff[merged.branch].out[i] = <<>>
\* (c) the diff restricted to the files of (b) is empty
MergedC ==
    \A i \in DOMAIN git.rdiff[merged.branch].out :
        ~git.rdiff[merged.branch].ok \/ git.rdiff[merged.branch].out[i] = <<>>

BigTop(a) ==
    IF \A i \in DOMAIN a : a[i] = 0 THEN 0
    ELSE CHOOSE i \in DOMAIN a : a[i] # 0 /\ \A j \in (i + 1)..Len(a) : a[j] = 0
BigTrim(a) == Only({SubSeq(x, 1, BigTop(x)) : x \in {a}})

RECURSIVE BigOfInt(_)
BigOfInt(n) == IF n = 0 THEN <<>> ELSE <<n % 10>> \o BigOfInt(n \div 10)

BigDigit(a, i) == IF i <= Len(a) THEN a[i] ELSE 0

\* A carry reaches place i where some lower place overflows and every place
\* between passes it on.
BigCarry(a, b, i) ==
    \E j \in 1..(i - 1) :
        /\ BigDigit(a, j) + BigDigit(b, j) >= 10
        /\ \A k \in (j + 1)..(i - 1) : BigDigit(a, k) + BigDigit(b, k) = 9
BigAddOf(a, b, n) ==
    BigTrim(AsSeq([i \in 1..n |->
                      (BigDigit(a, i) + BigDigit(b, i)
                          + (IF BigCarry(a, b, i) THEN 1 ELSE 0)) % 10], n))
BigAdd(a, b) ==
    Only({BigAddOf(x, y, (IF Len(x) > Len(y) THEN Len(x) ELSE Len(y)) + 1)
        : x \in {a}, y \in {b}})

BigBorrow(a, b, i) ==
    \E j \in 1..(i - 1) :
        /\ BigDigit(a, j) < BigDigit(b, j)
        /\ \A k \in (j + 1)..(i - 1) : BigDigit(a, k) = BigDigit(b, k)
BigSubOf(a, b) ==
    BigTrim(AsSeq([i \in 1..Len(a) |->
                      (a[i] - BigDigit(b, i)
                          - (IF BigBorrow(a, b, i) THEN 1 ELSE 0) + 10) % 10], Len(a)))
\* a - b for a >= b
BigSub(a, b) == Only({BigSubOf(x, y) : x \in {a}, y \in {b}})

\* a times one digit: the units of the products of the places and, one place
\* up, their tens.
BigMulDigit(a, d) ==
    BigAdd(AsSeq([i \in 1..Len(a) |-> (a[i] * d) % 10], Len(a)),
           <<0>> \o AsSeq([i \in 1..Len(a) |-> (a[i] * d) \div 10], Len(a)))

RECURSIVE BigMulFrom(_, _)
BigMulFrom(a, b) ==
    IF b = <<>> THEN <<>>
    ELSE BigAdd(BigMulDigit(a, b[1]),
                <<0>> \o Only({BigMulFrom(a, rest) : rest \in {Tail(b)}}))
BigMul(a, b) == Only({BigMulFrom(x, y) : x \in {a}, y \in {b}})

BigLessOf(a, b) ==
    IF Len(a) # Len(b) THEN Len(a) < Len(b)
    ELSE \E i \in DOMAIN a : a[i] < b[i] /\ \A j \in (i + 1)..Len(a) : a[j] = b[j]
BigLess(a, b) == Only({BigLessOf(x, y) : x \in {a}, y \in {b}})
BigLeq(a, b) == ~BigLess(b, a)

\* The number a string of decimal digits stands for.
BigOfText(digits) ==
    Only({BigTrim(AsSeq([i \in 1..Len(d) |-> DigitVal(d[Len(d) + 1 - i])], Len(d)))
        : d \in {digits}})

\* u64::MAX = 18446744073709551615 and i64::MAX = 9223372036854775807
U64_MAX ==
    BigOfText(<<"1", "8", "4", "4", "6", "7", "4", "4", "0", "7", "3", "7", "0", "9", "5", "5",
                "1", "6", "1", "5">>)
I64_MAX ==
    BigOfText(<<"9", "2", "2", "3", "3", "7", "2", "0", "3", "6", "8", "5", "4", "7", "7",
                "5", "8", "0", "7">>)

MS_PER_SECOND == BigOfInt(1000)
MS_PER_MINUTE == BigMul(BigOfInt(60), MS_PER_SECOND)
MS_PER_HOUR == BigMul(BigOfInt(60), MS_PER_MINUTE)
MS_PER_DAY == BigMul(BigOfInt(24), MS_PER_HOUR)
MS_PER_WEEK == BigMul(BigOfInt(7), MS_PER_DAY)
MS_PER_MONTH == BigMul(BigOfInt(30), MS_PER_DAY)
MS_PER_YEAR == BigMul(BigOfInt(365), MS_PER_DAY)

Lowers == <<"p", "t", "y", "m", "w", "d", "h", "s", "x">>
Uppers == <<"P", "T", "Y", "M", "W", "D", "H", "S", "X">>
ToUpper(c) ==
    IF \E i \in DOMAIN Lowers : Lowers[i] = c
    THEN Uppers[CHOOSE i \in DOMAIN Lowers : Lowers[i] = c]
    ELSE c
\* str::to_uppercase
ToUppercase(s) == Only({AsSeq([i \in DOMAIN t |-> ToUpper(t[i])], Len(t)) : t \in {s}})

\* The index behind the longest run of digits of s that starts at i.
DigitsEnd(s, i) ==
    CHOOSE j \in i..(Len(s) + 1) :
        /\ \A k \in i..(j - 1) : IsDigit(s[k])
        /\ j = Len(s) + 1 \/ ~IsDigit(s[j])

\* The index behind the longest run of blanks of s that starts at i.
SpacesEnd(s, i) ==
    CHOOSE j \in i..(Len(s) + 1) :
        /\ \A k \in i..(j - 1) : IsWhitespace(s[k])
        /\ j = Len(s) + 1 \/ ~IsWhitespace(s[j])

NoMatch == [ok |-> FALSE, int |-> <<>>, frac |-> <<>>, unit |-> "", end |-> 0]

\* A match of `(\d+(?:\.\d+)?)\s*(unit)` that starts at index i of s, with
\* the fraction taken or left out and blanks allowed where spaces = TRUE:
\* the digits before and behind the point, the unit and the index behind.
ComponentWith(s, i, units, spaces, fraction) ==
    IF ~(i <= Len(s) /\ IsDigit(s[i])) THEN NoMatch
    ELSE Only({
        IF fraction /\ ~(j < Len(s) /\ s[j] = "." /\ IsDigit(s[j + 1])) THEN NoMatch
        ELSE Only({
            Only({
                IF u <= Len(s) /\ s[u] \in units
                THEN [ok |-> TRUE, int |-> SubSeq(s, i, j - 1),
                      frac |-> IF fraction THEN SubSeq(s, j + 1, k - 1) ELSE <<>>,
                      unit |-> s[u], end |-> u + 1]
                ELSE NoMatch
                : u \in {IF spaces THEN SpacesEnd(s, k) ELSE k}})
            : k \in {IF fraction THEN DigitsEnd(s, j + 1) ELSE j}})
        : j \in {DigitsEnd(s, i)}})

\* The regex tries the number with its fraction first and without it next.
ComponentAt(s, i, units, spaces) ==
    Only({IF c.ok THEN c ELSE ComponentWith(s, i, units, spaces, FALSE)
        : c \in {ComponentWith(s, i, units, spaces, TRUE)}})

ShorthandUnits == {"d", "D", "w", "W", "M", "m", "y", "Y", "h", "H", "s", "S"}

\* normalize_duration, from the match of the shorthand pattern on.
NormalizeShorthand(normalized, caps) ==
    LET value == caps.int \o (IF caps.frac = <<>> THEN <<>> ELSE <<".">> \o caps.frac)
        iso_unit == IF caps.unit = "m" THEN "M" ELSE ToUpper(caps.unit)
        is_time_unit == caps.unit \in {"h", "H", "m", "s", "S"}
    IN  IF caps.ok /\ caps.end = Len(normalized) + 1
        THEN (IF is_time_unit THEN <<"P", "T">> ELSE <<"P">>) \o value \o <<iso_unit>>
        ELSE normalized

\* utils.rs 151-188 with the unit matched without regard to its case.
NormalizeDurationAnyCase(duration_str) ==
    Only({IF normalized = <<>> THEN duration_str
           ELSE IF StartsWith(ToUppercase(normalized), <<"P">>) THEN normalized
           ELSE Only({NormalizeShorthand(x, y)
                    : x \in {ToUppercase(normalized)},
                      y \in {ComponentAt(ToUppercase(normalized), 1, ShorthandUnits, TRUE)}})
                    : normalized \in {Trim(duration_str)}})

\* normalize_duration
NormalizeDuration(duration_str) ==
    Only({IF normalized = <<>> THEN duration_str
           ELSE IF StartsWith(ToUppercase(normalized), <<"P">>) THEN normalized
           ELSE Only({NormalizeShorthand(x, y)
                    : x \in {normalized}, y \in {ComponentAt(normalized, 1, ShorthandUnits, TRUE)}})
                    : normalized \in {Trim(duration_str)}})

\* `(value * unit as f64) as u64` for value = int.frac: the product, cut to
\* a whole number (the digits behind the point dropped), and no more than
\* u64::MAX, where the cast of a larger float stops.
ScaledValue(int, frac, unit) ==
    Only({IF BigLess(U64_MAX, whole) THEN U64_MAX ELSE whole
        : whole \in {Only({BigTrim(DropFirst(product, Len(frac)))
                         : product \in {BigMul(BigOfText(int \o frac), unit)}})}})

DateUnit(u) ==
    CASE u = "Y" -> MS_PER_YEAR [] u = "M" -> MS_PER_MONTH
      [] u = "W" -> MS_PER_WEEK [] u = "D" -> MS_PER_DAY
\* utils.rs 225-227 with the M of the time part read as the month.
TimeUnitOfDate(u) ==
    CASE u = "H" -> MS_PER_HOUR [] u = "M" -> MS_PER_MONTH [] u = "S" -> MS_PER_SECOND
TimeUnit(u) ==
    CASE u = "H" -> MS_PER_HOUR [] u = "M" -> MS_PER_MINUTE [] u = "S" -> MS_PER_SECOND

RECURSIVE SumDate(_, _)
\* captures_iter of the date pattern from index i on: each match adds its share.
SumDate(part, i) ==
    IF i > Len(part) THEN <<>>
    ELSE Only({IF c.ok
                THEN BigAdd(ScaledValue(c.int, c.frac, DateUnit(c.unit)),
                            Only({SumDate(part, next) : next \in {c.end}}))
                ELSE Only({SumDate(part, next)
                         : next \in {i + 1}})
                         : c \in {ComponentAt(part, i, {"Y", "M", "W", "D"}, FALSE)}})

RECURSIVE SumTime(_, _)
\* captures_iter of the time pattern from index i on.
SumTime(part, i) ==
    IF i > Len(part) THEN <<>>
    ELSE Only({IF c.ok
                THEN BigAdd(ScaledValue(c.int, c.frac, TimeUnit(c.unit)),
                            Only({SumTime(part, next) : next \in {c.end}}))
                ELSE Only({SumTime(part, next)
                         : next \in {i + 1}})
                         : c \in {ComponentAt(part, i, {"H", "M", "S"}, FALSE)}})

U64_MODULUS == BigAdd(U64_MAX, <<1>>)

RECURSIVE U64Wrap(_)
\* The value a u64 sum keeps when it passes u64::MAX (a build with overflow
\* checks stops there instead).
U64Wrap(x) ==
    Only({IF BigLess(U64_MAX, v) THEN U64Wrap(BigSub(v, U64_MODULUS)) ELSE v : v \in {x}})

\* parse_iso8601_duration, from the split at the T on.
SumParts(remaining) ==
    LET t_index == IndexOf(remaining, "T")
        date_part == IF t_index > 0 THEN SubSeq(remaining, 1, t_index - 1) ELSE remaining
        time_part == IF t_index > 0 THEN DropFirst(remaining, t_index) ELSE <<>>
    IN  U64Wrap(BigAdd(Only({SumDate(part, 1) : part \in {date_part}}),
                       Only({SumTime(part, 1) : part \in {time_part}})))

\* parse_iso8601_duration
ParseIso8601Duration(iso) ==
    Only({IF ~StartsWith(upper, <<"P">>) THEN <<>>
           ELSE Only({SumParts(x) : x \in {DropFirst(upper, 1)}}) : upper \in {ToUppercase(iso)}})

\* utils.rs 236-251 without the test `ms > 0`.
ParseDurationAnyTotal(duration_str) ==
    IF duration_str = <<>> \/ Trim(duration_str) = <<>>
    THEN Err("Duration cannot be empty")
    ELSE Ok(ParseIso8601Duration(NormalizeDuration(duration_str)))

\* parse_duration
ParseDuration(duration_str) ==
    IF duration_str = <<>> \/ Trim(duration_str) = <<>>
    THEN Err("Duration cannot be empty")
    ELSE Only({IF ms # <<>> THEN Ok(ms) ELSE Err("Invalid duration format")
             : ms \in {ParseIso8601Duration(NormalizeDuration(duration_str))}})

(***************************************************************************)
(* Merge/Prune Decision Engine (commands/prune.rs, remove_worktrees,       *)
(* get_default_branch)                                                     *)
(***************************************************************************)

MaxWorktrees == 3

MAIN_BRANCHES == {bMain, bMaster}
DETACHED_HEAD == <<"detached HEAD">>
bH == <<"h">>

\* A Worktree as complete_worktree_info builds it: is_main follows from the
\* branch, created_at is in milliseconds, a whole number of seconds, and 0
\* where the filesystem gives no time.
Worktree(name, branch, created_at, is_dirty, is_locked) ==
    [path |-> <<"/", "w", "/", name>>, branch |-> branch, head |-> <<"sha", name>>,
     created_at |-> created_at, is_dirty |-> is_dirty, is_locked |-> is_locked,
     is_prunable |-> FALSE, is_main |-> branch \in MAIN_BRANCHES]

wtMain == Worktree("main", bMain, 1000, FALSE, FALSE)
wtF == Worktree("f", bF, 1000, TRUE, FALSE)
wtG == Worktree("g", bG, 0, FALSE, FALSE)
wtH == Worktree("h", bH, 2000, FALSE, FALSE)
wtK == Worktree("k", bK, 1000, FALSE, TRUE)
wtDetached == Worktree("d", DETACHED_HEAD, 1000, FALSE, FALSE)
WorktreePool == {wtMain, wtF, wtG, wtH, wtK, wtDetached}

\* The listings: every worktree has its own path.
Listings ==
    {l \in SeqsUpTo(WorktreePool, MaxWorktrees) :
        \A i, j \in DOMAIN l : i # j => l[i].path # l[j].path}

OriginPrefix == <<"refs", "/", "remotes", "/", "origin", "/">>

\* What git answers to get_default_branch: the symbolic reference of the
\* remote HEAD, and whether refs/heads/main and refs/heads/master exist.
DefaultBranchAnswers ==
    {[symref |-> Ok(OriginPrefix \o bH \o <<"\n">>), main |-> FALSE, master |-> FALSE],
     [symref |-> Ok(OriginPrefix \o bMain \o <<"\n">>), main |-> TRUE, master |-> FALSE],
     [symref |-> Err("not a symbolic ref"), main |-> TRUE, master |-> TRUE],
     [symref |-> Err("not a symbolic ref"), main |-> FALSE, master |-> TRUE],
     [symref |-> Err("not a symbolic ref"), main |-> FALSE, master |-> FALSE]}
NoAnswer == [symref |-> Err("not asked"), main |-> FALSE, master |-> FALSE]

\* get_default_branch
GetDefaultBranch(ans) ==
    IF ans.symref.ok THEN Ok(ReplaceAll(Trim(ans.symref.value), OriginPrefix, <<>>))
    ELSE IF ans.main THEN Ok(bMain)
    ELSE IF ans.master THEN Ok(bMaster)
    ELSE Err("Could not determine default branch")

\* `threshold_ms as i64`: a u64 above i64::MAX becomes the negative number
\* that has the same 64 bits.
AsI64(x) ==
    IF BigLeq(x, I64_MAX) THEN [neg |-> FALSE, mag |-> x]
    ELSE [neg |-> TRUE, mag |-> BigSub(BigAdd(U64_MAX, <<1>>), x)]

\* The range of a DateTime: about 262,000 years either way of 1970, here the
\* milliseconds from 1970 to its upper end and from its lower end to 1970.
DateTimeMaxMs ==
    BigOfText(<<"8", "2", "1", "0", "0", "0", "0", "0", "0", "0", "0", "0", "0", "0", "0", "0">>)
DateTimeMinMs ==
    BigOfText(<<"8", "3", "3", "0", "0", "0", "0", "0", "0", "0", "0", "0", "0", "0", "0", "0">>)

\* `Utc::now() - Duration::milliseconds(threshold_ms as i64)`: the cutoff as a
\* signed number of milliseconds, or a panic where the duration or the
\* difference is out of range.
CutoffOf(c) ==
    IF \/ ~c.neg /\ BigLess(DateTimeMaxMs, c.mag)
       \/ c.neg /\ BigLess(DateTimeMinMs, c.mag)
    THEN [panic |-> TRUE, neg |-> FALSE, mag |-> <<>>]
    ELSE [panic |-> FALSE, neg |-> c.neg, mag |-> c.mag]
NowMinus(n, d) ==
    IF BigLess(I64_MAX, d.mag) THEN [panic |-> TRUE, neg |-> FALSE, mag |-> <<>>]
    ELSE IF d.neg THEN CutoffOf([neg |-> FALSE, mag |-> BigAdd(n, d.mag)])
    ELSE IF BigLeq(d.mag, n) THEN CutoffOf([neg |-> FALSE, mag |-> BigSub(n, d.mag)])
    ELSE CutoffOf([neg |-> TRUE, mag |-> BigSub(d.mag, n)])
Cutoff(now_ms, threshold_ms) ==
    Only({NowMinus(n, d) : n \in {BigOfInt(now_ms)}, d \in {AsI64(threshold_ms)}})

\* wt.created_at > cutoff
CreatedAfter(created_at, cutoff) ==
    cutoff.neg \/ BigLess(cutoff.mag, BigOfInt(created_at))

\* prune.rs 69-74 with the test of the base branch left out.
ExcludedNoBase(wt, base_branch) ==
    wt.is_main \/ wt.is_locked \/ wt.branch = DETACHED_HEAD

\* prune.rs 69-74: the worktrees the loop passes over in either mode.
Excluded(wt, base_branch) ==
    \/ wt.is_main \/ wt.is_locked \/ wt.branch = DETACHED_HEAD
    \/ base_branch # <<>> /\ wt.branch = base_branch

NoSelection == [candidates |-> <<>>, warnings |-> <<>>, panicked |-> FALSE]
Panicked == [candidates |-> <<>>, warnings |-> <<>>, panicked |-> TRUE]
Push(wt, rest) == [rest EXCEPT !.candidates = <<wt>> \o @]
Warn(branch, rest) == [rest EXCEPT !.warnings = <<branch>> \o @]

\* What git answers to the calls is_branch_merged makes for branch: `git
\* branch --merged` cannot be run when the call for a branch of g.unchecked
\* is made.
AnswersFor(g, branch) ==
    IF branch \in g.unchecked THEN [g EXCEPT !.merged = GitErr] ELSE g

\* The loop of prune.rs 68-98 with every candidate put before the earlier ones.
RECURSIVE SelectFromReversed(_, _, _, _, _, _, _)
SelectFromReversed(wts, i, base_branch, age_threshold_ms, dry_run, g, clock) ==
    IF i > Len(wts) THEN NoSelection
    ELSE LET wt == wts[i]
             rest == SelectFromReversed(wts, i + 1, base_branch, age_threshold_ms,
                                        dry_run, g, clock)
             cutoff == Cutoff(clock[i], Unwrap(age_threshold_ms))
             is_merged == IsBranchMerged(AnswersFor(g, wt.branch), wt.branch)
         IN  IF Excluded(wt, base_branch) THEN rest
             ELSE IF IsSome(age_threshold_ms)
             THEN IF cutoff.panic \/ rest.panicked THEN Panicked
                  ELSE IF wt.created_at \div 1000 = 0 \/ CreatedAfter(wt.created_at, cutoff)
                  THEN rest
                  ELSE [rest EXCEPT !.candidates = @ \o <<wt>>]
             ELSE IF is_merged.ok /\ is_merged.value
                  THEN [rest EXCEPT !.candidates = @ \o <<wt>>]
             ELSE IF is_merged.ok \/ dry_run THEN rest
             ELSE Warn(wt.branch, rest)

\* The loop of prune.rs 68-98 where an error of is_branch_merged ends the
\* loop with a warning.
RECURSIVE SelectFromUntilError(_, _, _, _, _, _, _)
SelectFromUntilError(wts, i, base_branch, age_threshold_ms, dry_run, g, clock) ==
    IF i > Len(wts) THEN NoSelection
    ELSE LET wt == wts[i]
             rest == SelectFromUntilError(wts, i + 1, base_branch, age_threshold_ms,
                                          dry_run, g, clock)
             cutoff == Cutoff(clock[i], Unwrap(age_threshold_ms))
             is_merged == IsBranchMerged(AnswersFor(g, wt.branch), wt.branch)
         IN  IF Excluded(wt, base_branch) THEN rest
             ELSE IF IsSome(age_threshold_ms)
             THEN IF cutoff.panic \/ rest.panicked THEN Panicked
                  ELSE IF wt.created_at \div 1000 = 0 \/ CreatedAfter(wt.created_at, cutoff)
                  THEN rest
                  ELSE Push(wt, rest)
             ELSE IF is_merged.ok /\ is_merged.value THEN Push(wt, rest)
             ELSE IF is_merged.ok THEN rest
             ELSE IF dry_run THEN NoSelection
             ELSE Warn(wt.branch, NoSelection)

\* The loop of prune.rs 68-98 from place i of the listing on: the candidates
\* in the order of the listing, the branches warned about, and whether the
\* computation of a cutoff panicked.
RECURSIVE SelectFrom(_, _, _, _, _, _, _)
SelectFrom(wts, i, base_branch, age_threshold_ms, dry_run, g, clock) ==
    IF i > Len(wts) THEN NoSelection
    ELSE LET wt == wts[i]
             rest == SelectFrom(wts, i + 1, base_branch, age_threshold_ms,
                                dry_run, g, clock)
             cutoff == Cutoff(clock[i], Unwrap(age_threshold_ms))
             is_merged == IsBranchMerged(AnswersFor(g, wt.branch), wt.branch)
         IN  IF Excluded(wt, base_branch) THEN rest
             ELSE IF IsSome(age_threshold_ms)
             THEN IF cutoff.panic \/ rest.panicked THEN Panicked
                  ELSE IF wt.created_at \div 1000 = 0 \/ CreatedAfter(wt.created_at, cutoff)
                  THEN rest
                  ELSE Push(wt, rest)
             ELSE IF is_merged.ok /\ is_merged.value THEN Push(wt, rest)
             ELSE IF is_merged.ok \/ dry_run THEN rest
             ELSE Warn(wt.branch, rest)

GitWorktreeRemove(path, force) ==
    [op |-> "worktree remove", path |-> path,
     args |-> IF force THEN <<"--force">> ELSE <<>>]

\* remove_worktree: the command issued and what comes of it; git fails for
\* the paths in failing.
RemoveWorktree(worktree_path, force, failing) ==
    [command |-> GitWorktreeRemove(worktree_path, force),
     result |-> IF worktree_path \in failing
                THEN Err("Failed to remove worktree") ELSE Ok(<<>>)]

NothingRemoved == [attempts |-> <<>>, removed |-> <<>>, failed |-> <<>>]

\* remove_worktrees that gives up at the first failure.
RECURSIVE RemoveWorktreesUntilFailure(_, _, _)
RemoveWorktreesUntilFailure(wts, force, failing) ==
    IF wts = <<>> THEN NothingRemoved
    ELSE LET path == Head(wts).path
             first == RemoveWorktree(path, force, failing)
             rest == RemoveWorktreesUntilFailure(Tail(wts), force, failing)
         IN  IF first.result.ok
             THEN [attempts |-> <<first.command>> \o rest.attempts,
                   removed |-> <<path>> \o rest.removed,
                   failed |-> rest.failed]
             ELSE [attempts |-> <<first.command>>, removed |-> <<>>,
                   failed |-> <<<<path, first.result.value>>>>]

\* remove_worktrees: the commands issued, and the lists removed and failed.
RECURSIVE RemoveWorktrees(_, _, _)
RemoveWorktrees(wts, force, failing) ==
    IF wts = <<>> THEN NothingRemoved
    ELSE LET path == Head(wts).path
             first == RemoveWorktree(path, force, failing)
             rest == RemoveWorktrees(Tail(wts), force, failing)
         IN  [attempts |-> <<first.command>> \o rest.attempts,
              removed |-> IF first.result.ok THEN <<path>> \o rest.removed
                          ELSE rest.removed,
              failed |-> IF first.result.ok THEN rest.failed
                         ELSE <<<<path, first.result.value>>>> \o rest.failed]

\* The durations given with --older-than: one and two seconds, a text that
\* is no duration, 300,000 years, and a count of years whose milliseconds
\* pass u64::MAX.
OlderThanInputs ==
    {<<"1", "s">>, <<"2", "s">>, <<"x">>,
     <<"3", "0", "0", "0", "0", "0", "y">>,
     <<"9", "9", "9", "9", "9", "9", "9", "9", "9", "y">>}

\* parse_duration of each of these, computed once.
ParsedOlderThan == {<<d, ParseDuration(d)>> : d \in OlderThanInputs}
ParseOlderThan(duration_str) == (CHOOSE p \in ParsedOlderThan : p[1] = duration_str)[2]

\* prune.rs 12-31: the two options are not given together and the duration
\* is one parse_duration accepts.
Validated(o) ==
    /\ ~(IsSome(o.older_than) /\ IsSome(o.base))
    /\ IsSome(o.older_than) => ParseOlderThan(Unwrap(o.older_than)).ok

\* prune.rs 21-31: age_threshold_ms
AgeThresholdMs(o) ==
    IF IsSome(o.older_than) THEN Some(ParseOlderThan(Unwrap(o.older_than)).value)
    ELSE None

\* prune.rs 42-56: base_branch
BaseBranch(o, dflt) ==
    IF IsSome(o.older_than) THEN Ok(<<>>)
    ELSE IF IsSome(o.base) THEN Ok(Unwrap(o.base))
    ELSE GetDefaultBranch(dflt)

\* prune.rs 169-174 with a prompt that fails taken for a yes.
ConfirmedUnlessNo(answer) == answer # "no"

\* prune.rs 169-174: Confirm::interact().unwrap_or(false)
Confirmed(answer) == answer = "yes"

PruneResult(exit, base_branch, age_threshold_ms, sel, answer, removal) ==
    [called |-> TRUE, exit |-> exit, base_branch |-> base_branch,
     age_threshold_ms |-> age_threshold_ms,
     candidates |-> sel.candidates, warnings |-> sel.warnings, answer |-> answer,
     attempts |-> removal.attempts, removed |-> removal.removed,
     failed |-> removal.failed]

\* commands/prune.rs run, lines 100-212: what the run does with the
\* selection sel, given the answer at the prompt and the paths for which
\* `git worktree remove` fails.
PruneCandidates(o, base_branch, age_threshold_ms, sel, answer, failing) ==
    IF sel.panicked
    THEN PruneResult("panic", <<>>, None, NoSelection, "none", NothingRemoved)
    ELSE IF sel.candidates = <<>>
    THEN PruneResult("nothing found", base_branch, age_threshold_ms, sel,
                     "none", NothingRemoved)
    ELSE IF o.dry_run
    THEN PruneResult("dry run", base_branch, age_threshold_ms, sel,
                     "none", NothingRemoved)
    ELSE IF ~o.force /\ ~Confirmed(answer)
    THEN PruneResult("cancelled", base_branch, age_threshold_ms, sel,
                     answer, NothingRemoved)
    ELSE PruneResult("removed", base_branch, age_threshold_ms, sel,
                     answer, RemoveWorktrees(sel.candidates, TRUE, failing))

PruneOptions ==
    {o \in [dry_run : BOOLEAN, force : BOOLEAN, base : {None, Some(bH)},
            older_than : {None} \cup {Some(d) : d \in OlderThanInputs}] :
        (IsSome(o.base) /\ IsSome(o.older_than)) => o.older_than = Some(<<"1", "s">>)}

\* What git answers about the branches during one prune: f and h are listed
\* as merged, squash-merged or unmerged; g is squash-merged, k and main are
\* listed, and a diff with the detached-HEAD sentinel as a revision fails.
\* A branch may also be one for which `git branch --merged` cannot be run
\* (unchecked), or the first or the second diff fails.
PruneBranches == <<bF, bG, bH, bK, bMain, DETACHED_HEAD>>
MergeStatus(sF, sH) ==
    [b \in Range(PruneBranches) |->
        CASE b = bF -> sF [] b = bH -> sH [] b = bG -> "squash"
          [] b = DETACHED_HEAD -> "invalid" [] OTHER -> "listed"]
PruneWorld(listOk, status) ==
    LET Listed(b) == status[b] = "listed"
    IN  [merged |-> IF listOk
                    THEN GitOk([i \in DOMAIN SelectSeq(PruneBranches, Listed) |->
                                  <<" ", " ">> \o SelectSeq(PruneBranches, Listed)[i]])
                    ELSE GitErr,
         unchecked |-> {b \in Range(PruneBranches) : status[b] = "unchecked"},
         diff |-> [b \in Range(PruneBranches) |->
                     CASE status[b] = "listed" -> GitOk(<<>>)
                       [] status[b] \in {"invalid", "no diff"} -> GitErr
                       [] OTHER -> GitOk(<< <<"a">> >>)],
         rdiff |-> [b \in Range(PruneBranches) |->
                     CASE status[b] = "unmerged" -> GitOk(<< <<"a">> >>)
                       [] status[b] \in {"invalid", "no restricted diff"} -> GitErr
                       [] OTHER -> GitOk(<<>>)]]
Statuses == {"listed", "squash", "unmerged"}
PruneWorlds ==
    {PruneWorld(TRUE, MergeStatus(sF, sH)) : sF \in Statuses, sH \in Statuses}
        \cup {PruneWorld(FALSE, MergeStatus("unmerged", "unmerged"))}

\* The clock at each place of the listing: it does not go back.
ClockValues == {2500, 3000}
Clocks(n) ==
    {c \in [1..n -> ClockValues] : \A i, j \in 1..n : i <= j => c[i] <= c[j]}

InitPrune ==
    /\ opts \in PruneOptions
    /\ worktrees \in Listings
    /\ git \in IF opts.older_than = None THEN PruneWorlds
               ELSE {PruneWorld(TRUE, MergeStatus("unmerged", "unmerged"))}
    /\ now \in IF Validated(opts) /\ IsSome(opts.older_than) THEN Clocks(Len(worktrees))
               ELSE {[i \in 1..Len(worktrees) |-> 2500]}
    /\ prune = NotCalled
    /\ merged = NotCalled
    /\ PathIdle /\ CreateIdle /\ ParseIdle /\ ExtractIdle /\ DiscoverIdle /\ BootIdle /\ DurationIdle /\ ListIdle /\ LookupIdle

\* commands/prune.rs run: one run of `grove prune` with the options opts,
\* where discovery succeeds or not, git answers dflt about the default
\* branch, the listing is obtained or not, the user gives answer at the
\* prompt and `git worktree remove` fails for the paths in failing.
PruneRun ==
    /\ ~prune.called
    /\ LET valid == Validated(opts)
           age_threshold_ms == AgeThresholdMs(opts)
       IN
       \E discovered \in IF valid THEN BOOLEAN ELSE {FALSE} :
       \E dflt \in IF discovered /\ opts.older_than = None /\ opts.base = None
                   THEN DefaultBranchAnswers ELSE {NoAnswer} :
          LET base_branch == BaseBranch(opts, dflt)
          IN
          \E listed \in IF discovered /\ base_branch.ok THEN BOOLEAN ELSE {FALSE} :
             IF ~listed
             THEN prune' = [discovered |-> discovered, listed |-> FALSE] @@
                           PruneResult("error", <<>>, None, NoSelection, "none",
                                       NothingRemoved)
             ELSE LET sel == SelectFrom(worktrees, 1, base_branch.value,
                                        age_threshold_ms, opts.dry_run, git, now)
                      removing == ~sel.panicked /\ sel.candidates # <<>> /\ ~opts.dry_run
                  IN  \E answer \in IF removing /\ ~opts.force
                                    THEN {"yes", "no", "error"} ELSE {"none"} :
                      \E failing \in
                            IF removing /\ (opts.force \/ Confirmed(answer))
                            THEN SUBSET {sel.candidates[i].path : i \in DOMAIN sel.candidates}
                            ELSE {{}} :
                         prune' = [discovered |-> discovered, listed |-> TRUE] @@
                                  PruneCandidates(opts, base_branch.value, age_threshold_ms,
                                                  sel, answer, failing)
    /\ UNCHANGED <<opts, worktrees, now, git, merged, pathVars, createVars, parseVars, extractVars, discoverVars, bootVars, durationVars, listVars, lookupVars>>

NextPrune == PruneRun

SpecPrune == InitPrune /\ [][NextPrune]_vars

\* s is t with some of its elements left out: the elements of s stand at
\* rising places of t.
IsSubSeq(s, t) ==
    \E f \in [DOMAIN s -> DOMAIN t] :
        /\ \A i \in DOMAIN s : s[i] = t[f[i]]
        /\ \A i, j \in DOMAIN s : i < j => f[i] < f[j]

IsCandidate(wt) == \E j \in DOMAIN prune.candidates : prune.candidates[j] = wt

\* C5: in either mode the candidates of prune hold no worktree with is_main,
\* none with is_locked and none on the detached-HEAD sentinel, and in merge
\* mode none whose branch is the base branch.
C5_CandidatesExcludeProtected ==
    prune.called =>
        \A i \in DOMAIN prune.candidates :
            LET wt == prune.candidates[i]
            IN  /\ ~wt.is_main /\ ~wt.is_locked /\ wt.branch # DETACHED_HEAD
                /\ opts.older_than = None => wt.branch # prune.base_branch

\* C5 witness: a merge-mode run that selects a candidate from a listing that
\* also has a locked worktree and the worktree of the base branch h, which
\* git reports as merged.
C5_Witness ==
    /\ prune.called /\ opts.older_than = None
    /\ prune.candidates # <<>>
    /\ prune.base_branch = bH
    /\ \E i \in DOMAIN worktrees : worktrees[i] = wtH
    /\ \E i \in DOMAIN worktrees : worktrees[i].is_locked
    /\ IsBranchMerged(git, bH) = Ok(TRUE)

\* C6: in age mode a worktree that passes the exclusion filter is a
\* candidate exactly when its created_at is not the epoch and created_at is
\* at or before now - threshold, now being the clock when the loop is at the
\* worktree and threshold the milliseconds parse_duration returned.
C6_AgeCandidateIff ==
    (prune.called /\ IsSome(prune.age_threshold_ms)) =>
        \A i \in DOMAIN worktrees :
            ~Excluded(worktrees[i], <<>>) =>
                (IsCandidate(worktrees[i]) <=>
                    /\ worktrees[i].created_at # 0
                    /\ BigLeq(BigAdd(BigOfInt(worktrees[i].created_at),
                                     Unwrap(prune.age_threshold_ms)),
                              BigOfInt(now[i])))

\* C7: prune issues no `git worktree remove` under --dry-run (with --force
\* or without), with no candidate, or without --force when the prompt is
\* declined or fails; and every removal it attempts is of a candidate.
C7_RemovalOnlyWhenConfirmed ==
    prune.called =>
        /\ opts.dry_run => prune.attempts = <<>>
        /\ prune.candidates = <<>> => prune.attempts = <<>>
        /\ (~opts.force /\ prune.answer \in {"no", "error"}) => prune.attempts = <<>>
        /\ \A i \in DOMAIN prune.attempts :
              /\ prune.attempts[i].op = "worktree remove"
              /\ \E j \in DOMAIN prune.candidates :
                    prune.candidates[j].path = prune.attempts[i].path

\* C7 witness: without --force the prompt fails, and the candidates stay.
C7_Witness ==
    /\ prune.called /\ ~opts.force /\ ~opts.dry_run
    /\ prune.answer = "error"
    /\ prune.candidates # <<>>
    /\ prune.attempts = <<>>

\* C8: remove_worktrees attempts every worktree of its input once, in the
\* order of the input, whatever becomes of the earlier attempts; every input
\* path is in exactly one of removed and failed, the lengths add up, and
\* both lists keep the order of the input.
C8_EveryInputAttemptedOnce ==
    (prune.called /\ prune.exit = "removed") =>
        LET input == [i \in DOMAIN prune.candidates |-> prune.candidates[i].path]
            failed == [i \in DOMAIN prune.failed |-> prune.failed[i][1]]
        IN  /\ Len(prune.attempts) = Len(input)
            /\ \A i \in DOMAIN input : prune.attempts[i].path = input[i]
            /\ \A i \in DOMAIN input :
                  (input[i] \in Range(prune.removed)) # (input[i] \in Range(failed))
            /\ Len(prune.removed) + Len(prune.failed) = Len(input)
            /\ IsSubSeq(prune.removed, input)
            /\ IsSubSeq(failed, input)

\* C8 witness: the first removal fails and the second one is still made.
C8_Witness ==
    /\ prune.called /\ prune.exit = "removed"
    /\ Len(prune.candidates) >= 2
    /\ prune.failed # <<>> /\ prune.failed[1][1] = prune.candidates[1].path
    /\ prune.removed # <<>> /\ prune.removed[1] = prune.candidates[2].path

\* C9: the candidates are the listing with some worktrees left out: in the
\* order of the listing, every field as listed, no worktree twice.
C9_CandidatesAreSublist ==
    prune.called =>
        /\ IsSubSeq(prune.candidates, worktrees)
        /\ \A i, j \in DOMAIN prune.candidates :
              i # j => prune.candidates[i].path # prune.candidates[j].path

\* C9 witness: of three listed worktrees the first and the third are the
\* candidates.
C9_Witness ==
    /\ prune.called
    /\ Len(worktrees) = 3
    /\ prune.candidates = <<worktrees[1], worktrees[3]>>

\* The candidates of the run are candidates under the threshold smaller too.
SelectedUnder(smaller) ==
    \A sel \in {SelectFrom(worktrees, 1, <<>>, Some(smaller), opts.dry_run, git, now)} :
        ~sel.panicked =>
            \A i \in DOMAIN prune.candidates :
                \E j \in DOMAIN sel.candidates : sel.candidates[j] = prune.candidates[i]

\* C26: for every threshold parse_duration accepts, age mode selects no
\* worktree created later than now - threshold, and none that a smaller
\* accepted threshold does not select.
C26_ThresholdKeepsItsValue ==
    (prune.called /\ IsSome(prune.age_threshold_ms)) =>
        /\ \A i \in DOMAIN worktrees :
              IsCandidate(worktrees[i]) =>
                  BigLeq(BigAdd(BigOfInt(worktrees[i].created_at),
                                Unwrap(prune.age_threshold_ms)),
                         BigOfInt(now[i]))
        /\ \A d \in OlderThanInputs :
              (ParseOlderThan(d).ok
               /\ BigLess(ParseOlderThan(d).value, Unwrap(prune.age_threshold_ms)))
              => SelectedUnder(ParseOlderThan(d).value)

\* Merge mode alone, with the failures of the git calls: f is anything, g is
\* squash-merged, unchecked or without its first diff, h is listed or
\* unchecked; the listings are of f, g, h and the locked k.
MergeStatusOf(sF, sG, sH) ==
    [b \in Range(PruneBranches) |->
        CASE b = bF -> sF [] b = bG -> sG [] b = bH -> sH
          [] b = DETACHED_HEAD -> "invalid" [] OTHER -> "listed"]

MergeModeWorlds ==
    {PruneWorld(TRUE, MergeStatusOf(sF, sG, sH))
        : sF \in Statuses \cup {"unchecked", "no diff", "no restricted diff"},
          sG \in {"squash", "unchecked", "no diff"},
          sH \in {"listed", "unchecked"}}

InitPruneMerge ==
    /\ opts \in {o \in PruneOptions : o.older_than = None}
    /\ worktrees \in {l \in Listings : Range(l) \subseteq {wtF, wtG, wtH, wtK}}
    /\ git \in MergeModeWorlds
    /\ now = [i \in 1..Len(worktrees) |-> 2500]
    /\ prune = NotCalled
    /\ merged = NotCalled
    /\ PathIdle /\ CreateIdle /\ ParseIdle /\ ExtractIdle /\ DiscoverIdle /\ BootIdle
    /\ DurationIdle /\ ListIdle /\ LookupIdle

SpecPruneMerge == InitPruneMerge /\ [][NextPrune]_vars

\* What is_branch_merged returns for the worktree at place i.
CheckAt(i) == IsBranchMerged(AnswersFor(git, worktrees[i].branch), worktrees[i].branch)

Evaluated(i) == ~Excluded(worktrees[i], prune.base_branch)

IsWarned(branch) == \E j \in DOMAIN prune.warnings : prune.warnings[j] = branch

\* The worktrees behind place i are evaluated: one whose branch is merged is
\* a candidate and no other is.
LaterOnesEvaluated(i) ==
    \A j \in DOMAIN worktrees :
        (j > i /\ Evaluated(j)) => (IsCandidate(worktrees[j]) <=> CheckAt(j) = Ok(TRUE))

\* C23 as stated: in merge mode an error of the merge-status check of one
\* worktree does not end the run, the worktrees behind it are still
\* evaluated, and a warning names the branch whose check failed.
C23_CheckErrorIsWarning ==
    (prune.called /\ prune.listed /\ opts.older_than = None) =>
        \A i \in DOMAIN worktrees :
            (Evaluated(i) /\ ~CheckAt(i).ok) =>
                /\ prune.exit # "error"
                /\ LaterOnesEvaluated(i)
                /\ IsWarned(worktrees[i].branch)

\* C23 as amended: the same, the warning being reported unless the run is a
\* dry run.
C23_CheckErrorIsWarningUnlessDryRun ==
    (prune.called /\ prune.listed /\ opts.older_than = None) =>
        \A i \in DOMAIN worktrees :
            (Evaluated(i) /\ ~CheckAt(i).ok) =>
                /\ prune.exit # "error"
                /\ LaterOnesEvaluated(i)
                /\ ~opts.dry_run => IsWarned(worktrees[i].branch)

\* C23 witness: the check of f fails, g behind it is found merged and is
\* removed, and the warning names f.
C23_Witness ==
    /\ prune.called /\ prune.listed /\ opts.older_than = None /\ ~opts.dry_run
    /\ worktrees = <<wtF, wtG>>
    /\ ~CheckAt(1).ok /\ CheckAt(2) = Ok(TRUE)
    /\ prune.warnings = <<bF>>
    /\ prune.candidates = <<wtG>>
    /\ prune.removed = <<wtG.path>>

\* The git calls that decide the merge status of branch all succeed: the
\* listing of the merged branches and, if the branch is not on it, the diff
\* of base...branch and, if that names a file, the diff restricted to its
\* files.
ChecksSucceed(g, branch) ==
    /\ g.merged.ok
    /\ ~ListedAsMerged(g.merged, branch) =>
          /\ g.diff[branch].ok
          /\ SelectSeq(g.diff[branch].out, NotEmpty) # <<>> => g.rdiff[branch].ok

\* C25: in merge mode a worktree is a candidate only if every git call that
\* decides its merge status succeeded.
C25_CandidateOnlyIfChecksSucceed ==
    (prune.called /\ opts.older_than = None) =>
        \A i \in DOMAIN prune.candidates :
            ChecksSucceed(AnswersFor(git, prune.candidates[i].branch),
                          prune.candidates[i].branch)

(***************************************************************************)
(* Porcelain Parser (git/worktree_manager.rs, parse_worktree_lines)        *)
(*                                                                         *)
(* The text of `git worktree list --porcelain` is a sequence of atoms: the *)
(* keywords of the format, a path, a ref prefix and a branch name are one  *)
(* atom each, the blank, the line feed and the carriage return are atoms   *)
(* of their own.                                                           *)
(***************************************************************************)

MaxLines == 6

\* str::lines: where the lines of text start, the first one and each one
\* behind a line feed; nothing starts behind the last line feed of the text.
LineStarts(text) ==
    {s \in {1} \cup {i + 1 : i \in {j \in DOMAIN text : text[j] = "\n"}} : s <= Len(text)}

\* The index of the line feed that ends the line that starts at s, or the
\* index behind the text.
LineEnd(text, s) ==
    CHOOSE e \in s..(Len(text) + 1) :
        /\ e = Len(text) + 1 \/ text[e] = "\n"
        /\ \A k \in s..(e - 1) : text[k] # "\n"

\* str::lines takes a carriage return before the line feed as part of the
\* line ending.
StripCr(line) ==
    IF line # <<>> /\ line[Len(line)] = "\r" THEN SubSeq(line, 1, Len(line) - 1) ELSE line

LinesOf(text, starts) ==
    AsSeq([k \in 1..Cardinality(starts) |->
              LET s == CHOOSE s \in starts : Cardinality({t \in starts : t < s}) = k - 1
              IN  StripCr(SubSeq(text, s, LineEnd(text, s) - 1))],
          Cardinality(starts))

\* str::lines
Lines(text) ==
    Only({Only({LinesOf(t, starts) : starts \in {LineStarts(t)}}) : t \in {text}})

\* PartialWorktree; header is the index of the `worktree ` line the record
\* was started at, kept here to tell the blocks apart (the code has no such
\* field).
EmptyPartial ==
    [path |-> None, head |-> None, branch |-> None, is_locked |-> FALSE,
     is_prunable |-> FALSE, is_bare |-> FALSE, header |-> 0]

NotRefsHeads(atom) == atom # "refs/heads/"

\* worktree_manager.rs 373-375, 398-400 without the test of is_bare.
PushIfPath(parsed_worktrees, current) ==
    IF IsSome(current.path) THEN Append(parsed_worktrees, current) ELSE parsed_worktrees

\* worktree_manager.rs 373-375, 398-400: the record is pushed if it has a
\* path and its block had no `bare` line.
PushUnlessBare(parsed_worktrees, current) ==
    IF IsSome(current.path) /\ ~current.is_bare
    THEN Append(parsed_worktrees, current)
    ELSE parsed_worktrees

\* The body of the loop where a header starts the new record from the
\* current one, keeping what the earlier block has set.
ParseLineKeepingFields(st, line, i) ==
    IF StartsWith(line, <<"worktree", " ">>)
    THEN [worktrees |-> PushUnlessBare(st.worktrees, st.current),
          current |-> [st.current EXCEPT !.path = Some(DropFirst(line, 2)),
                                         !.is_bare = FALSE, !.header = i]]
    ELSE IF StartsWith(line, <<"HEAD", " ">>)
    THEN [st EXCEPT !.current.head = Some(DropFirst(line, 2))]
    ELSE IF StartsWith(line, <<"branch", " ">>)
    THEN [st EXCEPT !.current.branch = Some(SelectSeq(DropFirst(line, 2), NotRefsHeads))]
    ELSE IF line = <<"detached">>
    THEN [st EXCEPT !.current.branch = Some(DETACHED_HEAD)]
    ELSE IF line = <<"locked">>
    THEN [st EXCEPT !.current.is_locked = TRUE]
    ELSE IF line = <<"prunable">>
    THEN [st EXCEPT !.current.is_prunable = TRUE]
    ELSE IF line = <<"bare">>
    THEN [st EXCEPT !.current.is_bare = TRUE]
    ELSE st

\* worktree_manager.rs 372-395: the body of the loop for line i.
ParseLine(st, line, i) ==
    IF StartsWith(line, <<"worktree", " ">>)
    THEN [worktrees |-> PushUnlessBare(st.worktrees, st.current),
          current |-> [EmptyPartial EXCEPT !.path = Some(DropFirst(line, 2)),
                                           !.header = i]]
    ELSE IF StartsWith(line, <<"HEAD", " ">>)
    THEN [st EXCEPT !.current.head = Some(DropFirst(line, 2))]
    ELSE IF StartsWith(line, <<"branch", " ">>)
    THEN [st EXCEPT !.current.branch = Some(SelectSeq(DropFirst(line, 2), NotRefsHeads))]
    ELSE IF line = <<"detached">>
    THEN [st EXCEPT !.current.branch = Some(DETACHED_HEAD)]
    ELSE IF line = <<"locked">>
    THEN [st EXCEPT !.current.is_locked = TRUE]
    ELSE IF line = <<"prunable">>
    THEN [st EXCEPT !.current.is_prunable = TRUE]
    ELSE IF line = <<"bare">>
    THEN [st EXCEPT !.current.is_bare = TRUE]
    ELSE st

RECURSIVE ParseFrom(_, _, _)
\* The loop from line i on and the push behind it.
ParseFrom(lines, i, st) ==
    IF i > Len(lines) THEN PushUnlessBare(st.worktrees, st.current)
    ELSE Only({ParseFrom(lines, i + 1, next) : next \in {ParseLine(st, lines[i], i)}})

\* parse_worktree_lines
ParseWorktreeLines(output) ==
    Only({ParseFrom(lines, 1, [worktrees |-> <<>>, current |-> EmptyPartial])
        : lines \in {Lines(Trim(output))}})

\* The lines the texts are made of: a header, `bare`, `bare` with a blank
\* behind it, a branch, `locked` and the blank line between two blocks.
LinePool ==
    {<<"worktree", " ", "/a">>, <<"bare">>, <<"bare", " ">>,
     <<"branch", " ", "refs/heads/", "f">>, <<"locked">>, <<>>}

\* Every text of up to MaxLines lines, each ended by a line feed.
PorcelainTexts ==
    {Flatten([i \in DOMAIN ls |-> ls[i] \o <<"\n">>]) : ls \in SeqsUpTo(LinePool, MaxLines)}

InitParse ==
    /\ porcelain \in PorcelainTexts
    /\ parsed = NotCalled
    /\ PathIdle /\ CreateIdle /\ MergeIdle /\ PruneIdle /\ ExtractIdle /\ DiscoverIdle /\ BootIdle /\ DurationIdle /\ ListIdle /\ LookupIdle

\* One call of parse_worktree_lines on the text.
ParseCall ==
    /\ ~parsed.called
    /\ parsed' = [called |-> TRUE, worktrees |-> ParseWorktreeLines(porcelain)]
    /\ UNCHANGED <<porcelain, pathVars, createVars, mergeVars, pruneVars, extractVars, discoverVars, bootVars, durationVars, listVars, lookupVars>>

NextParse == ParseCall

SpecParse == InitParse /\ [][NextParse]_vars

IsHeader(line) == StartsWith(line, <<"worktree", " ">>)

\* The lines of the block whose header is line h: those behind it up to the
\* next header.
BlockOf(lines, h) ==
    {k \in (h + 1)..Len(lines) : \A j \in (h + 1)..k : ~IsHeader(lines[j])}

HasBareLine(lines, h) == \E k \in BlockOf(lines, h) : lines[k] = <<"bare">>

NoRecordOfBareBlock(lines, records) ==
    \A i \in DOMAIN records :
        /\ records[i].header \in DOMAIN lines
        /\ IsHeader(lines[records[i].header])
        /\ ~HasBareLine(lines, records[i].header)

\* C10: parse_worktree_lines emits no record for a block that has a `bare`
\* line: every record it returns was started at a header whose block, up to
\* the next header or the end of the text, has no such line.
C10_NoRecordForBareBlock ==
    parsed.called =>
        \A lines \in {Lines(Trim(porcelain))} : NoRecordOfBareBlock(lines, parsed.worktrees)

ThreeBlocksMiddleBare(lines, records) ==
    \E h1, h2, h3 \in DOMAIN lines :
        /\ h1 < h2 /\ h2 < h3
        /\ \A k \in DOMAIN lines : IsHeader(lines[k]) <=> k \in {h1, h2, h3}
        /\ \E k \in BlockOf(lines, h2) : k > h2 + 1 /\ lines[k] = <<"bare">>
        /\ Len(records) = 2 /\ records[1].header = h1 /\ records[2].header = h3

\* C10 witness: three blocks, the middle one with a `bare` line that is not
\* its first line, and the records of the first and the third block only.
C10_Witness ==
    /\ parsed.called
    /\ \E lines \in {Lines(Trim(porcelain))} : ThreeBlocksMiddleBare(lines, parsed.worktrees)

\* The lines of the texts of whole blocks: two headers, the lines that set a
\* field, one of them a branch whose name holds `refs/heads/` again, `bare`,
\* the blank line and a line of a later git.
MaxBlockLines == 4

BlockLinePool ==
    {<<"worktree", " ", "/a">>, <<"worktree", " ", "/b">>, <<"HEAD", " ", "1a">>,
     <<"branch", " ", "refs/heads/", "f">>,
     <<"branch", " ", "refs/heads/", "x/", "refs/heads/", "y">>,
     <<"detached">>, <<"locked">>, <<"prunable">>, <<"bare">>, <<>>,
     <<"future", " ", "x">>}

BlockTexts ==
    {Flatten([i \in DOMAIN ls |-> ls[i] \o <<"\n">>])
        : ls \in SeqsUpTo(BlockLinePool, MaxBlockLines)}

InitParseBlocks ==
    /\ porcelain \in BlockTexts
    /\ parsed = NotCalled
    /\ PathIdle /\ CreateIdle /\ MergeIdle /\ PruneIdle /\ ExtractIdle /\ DiscoverIdle
    /\ BootIdle /\ DurationIdle /\ ListIdle /\ LookupIdle

SpecParseBlocks == InitParseBlocks /\ [][NextParse]_vars

\* The headers of the blocks without a `bare` line.
EmittingHeaders(lines) ==
    {h \in DOMAIN lines : IsHeader(lines[h]) /\ ~HasBareLine(lines, h)}

\* The last line of the block of h that is one of kind, or 0.
LastOf(lines, h, kind) ==
    LET ks == {k \in BlockOf(lines, h) : kind[k]}
    IN  IF ks = {} THEN 0 ELSE CHOOSE k \in ks : \A j \in ks : j <= k

IsHeadLine(line) == StartsWith(line, <<"HEAD", " ">>)
IsBranchLine(line) == StartsWith(line, <<"branch", " ">>)

\* The record the block of header h alone gives: the head of its last HEAD
\* line, the branch of its last `branch ` or `detached` line (read from the
\* line as the parser reads it), locked and prunable if it has such a line.
RecordOfBlock(lines, h) ==
    LET hd == LastOf(lines, h, [k \in DOMAIN lines |-> IsHeadLine(lines[k])])
        br == LastOf(lines, h, [k \in DOMAIN lines |->
                                   IsBranchLine(lines[k]) \/ lines[k] = <<"detached">>])
    IN  [path |-> Some(DropFirst(lines[h], 2)),
         head |-> IF hd = 0 THEN None ELSE Some(DropFirst(lines[hd], 2)),
         branch |-> IF br = 0 THEN None
                    ELSE IF lines[br] = <<"detached">> THEN Some(DETACHED_HEAD)
                    ELSE Some(SelectSeq(DropFirst(lines[br], 2), NotRefsHeads)),
         is_locked |-> \E k \in BlockOf(lines, h) : lines[k] = <<"locked">>,
         is_prunable |-> \E k \in BlockOf(lines, h) : lines[k] = <<"prunable">>,
         is_bare |-> FALSE, header |-> h]

OneRecordPerBlock(lines, records) ==
    LET hs == EmittingHeaders(lines)
    IN  /\ Len(records) = Cardinality(hs)
        /\ \A i \in DOMAIN records :
              /\ records[i].header \in hs
              /\ Cardinality({g \in hs : g < records[i].header}) = i - 1
              /\ records[i] = RecordOfBlock(lines, records[i].header)

\* C21: parse_worktree_lines emits one record per `worktree ` header whose
\* block has no `bare` line, in the order of the headers, and the head,
\* branch, is_locked and is_prunable of a record are those of the lines
\* between its header and the next one: earlier blocks, lines before the
\* first header, blank and unrecognised lines contribute nothing.
C21_OneRecordPerBlock ==
    parsed.called =>
        \A lines \in {Lines(Trim(porcelain))} : OneRecordPerBlock(lines, parsed.worktrees)

\* C21 witness: `locked` before the first header, a first block with a
\* branch, and a second block without any line: two records, the second one
\* with no branch and neither of them locked.
C21_Witness ==
    /\ parsed.called
    /\ porcelain = <<"locked", "\n", "worktree", " ", "/a", "\n",
                     "branch", " ", "refs/heads/", "f", "\n", "worktree", " ", "/b", "\n">>
    /\ Len(parsed.worktrees) = 2
    /\ parsed.worktrees[1].branch = Some(<<"f">>) /\ ~parsed.worktrees[1].is_locked
    /\ parsed.worktrees[2].branch = None /\ ~parsed.worktrees[2].is_locked

\* The ref with one leading `refs/heads/` removed, if it starts with one.
WithoutRefsHeadsPrefix(ref) ==
    IF StartsWith(ref, <<"refs/heads/">>) THEN DropFirst(ref, 1) ELSE ref

BranchIsRefWithoutPrefix(lines, records) ==
    \A i \in DOMAIN records :
        \A br \in {LastOf(lines, records[i].header,
                          [k \in DOMAIN lines |->
                              IsBranchLine(lines[k]) \/ lines[k] = <<"detached">>])} :
            br # 0 /\ IsBranchLine(lines[br])
            => records[i].branch = Some(WithoutRefsHeadsPrefix(DropFirst(lines[br], 2)))

\* C22: for a line `branch <ref>` the branch of the record is <ref> with one
\* leading `refs/heads/` removed when <ref> starts with it, and the rest of
\* the ref as it is.
C22_BranchIsRefWithoutPrefix ==
    parsed.called =>
        \A lines \in {Lines(Trim(porcelain))} :
            BranchIsRefWithoutPrefix(lines, parsed.worktrees)

(***************************************************************************)
(* Gitdir Parser (utils.rs, extract_bare_clone_from_gitdir)                *)
(*                                                                         *)
(* A path text is a sequence of atoms: the separator, the suffix `.git`,   *)
(* the name `worktrees` and the other names are one atom each.             *)
(***************************************************************************)

MaxSegments == 5

\* str::find: the number of atoms before the first place pat stands in s.
Find(s, pat) ==
    IF Contains(s, pat)
    THEN Some(CHOOSE i \in 0..(Len(s) - Len(pat)) :
                 /\ \A j \in 1..Len(pat) : s[i + j] = pat[j]
                 /\ \A h \in 0..(i - 1) : \E j \in 1..Len(pat) : s[h + j] # pat[j])
    ELSE None

\* str::rfind: the same for the last place.
RFind(s, pat) ==
    IF Contains(s, pat)
    THEN Some(CHOOSE i \in 0..(Len(s) - Len(pat)) :
                 /\ \A j \in 1..Len(pat) : s[i + j] = pat[j]
                 /\ \A h \in (i + 1)..(Len(s) - Len(pat)) :
                       \E j \in 1..Len(pat) : s[h + j] # pat[j])
    ELSE None

GitWorktreesPattern == <<".git", "/", "worktrees", "/">>
WorktreesPattern == <<"/", "worktrees", "/">>

\* extract_bare_clone_from_gitdir with the last `.git/worktrees/` taken for
\* the first.
ExtractBareCloneAtLast(gitdir_path) ==
    IF IsSome(RFind(gitdir_path, GitWorktreesPattern))
    THEN Ok(SubSeq(gitdir_path, 1, Unwrap(RFind(gitdir_path, GitWorktreesPattern)) + 1))
    ELSE IF IsSome(RFind(gitdir_path, WorktreesPattern))
    THEN Ok(SubSeq(gitdir_path, 1, Unwrap(RFind(gitdir_path, WorktreesPattern))))
    ELSE Err("Invalid worktree gitdir path")

\* extract_bare_clone_from_gitdir; `idx + 4` is the place behind `.git`, one
\* atom here.
ExtractBareCloneFromGitdir(gitdir_path) ==
    IF IsSome(Find(gitdir_path, GitWorktreesPattern))
    THEN Ok(SubSeq(gitdir_path, 1, Unwrap(Find(gitdir_path, GitWorktreesPattern)) + 1))
    ELSE IF IsSome(Find(gitdir_path, WorktreesPattern))
    THEN Ok(SubSeq(gitdir_path, 1, Unwrap(Find(gitdir_path, WorktreesPattern))))
    ELSE Err("Invalid worktree gitdir path")

\* The segments the gitdir paths are made of.
SegmentPool == {<<"r">>, <<"r", ".git">>, <<".git">>, <<"worktrees">>, <<"f">>}

\* Every absolute path of up to MaxSegments segments.
GitdirPaths ==
    {Flatten([i \in DOMAIN segs |-> <<"/">> \o segs[i]]) : segs \in SeqsUpTo(SegmentPool, MaxSegments)}

InitExtract ==
    /\ gitdir \in GitdirPaths
    /\ extracted = NotCalled
    /\ PathIdle /\ CreateIdle /\ MergeIdle /\ PruneIdle /\ ParseIdle /\ DiscoverIdle /\ BootIdle /\ DurationIdle /\ ListIdle /\ LookupIdle

\* One call of extract_bare_clone_from_gitdir on the path.
ExtractCall ==
    /\ ~extracted.called
    /\ extracted' = [called |-> TRUE, result |-> ExtractBareCloneFromGitdir(gitdir)]
    /\ UNCHANGED <<gitdir, pathVars, createVars, mergeVars, pruneVars, parseVars, discoverVars, bootVars, durationVars, listVars, lookupVars>>

NextExtract == ExtractCall

SpecExtract == InitExtract /\ [][NextExtract]_vars

\* The places i of path where it reads <bare>/worktrees/<name>: the
\* separator before `worktrees` stands at i, <bare> before it ends in `.git`
\* and <name> behind it starts with a segment.
BareEnds(path) ==
    {i \in 2..(Len(path) - 3) :
        /\ path[i - 1] = ".git"
        /\ SubSeq(path, i, i + 2) = WorktreesPattern
        /\ path[i + 3] # "/"}

\* C11 as stated: for every way to read the path as <bare>/worktrees/<name>
\* with <bare> ending in `.git`, the result is <bare>; a path without
\* `/worktrees/` yields an error.
C11_ExtractReturnsBare ==
    extracted.called =>
        /\ \A i \in BareEnds(gitdir) : extracted.result = Ok(SubSeq(gitdir, 1, i - 1))
        /\ ~Contains(gitdir, WorktreesPattern) => ~extracted.result.ok

\* C11 amended: the same for a <bare> that holds no `.git/worktrees/` of
\* its own.
C11_ExtractReturnsFirstBare ==
    extracted.called =>
        /\ \A i \in BareEnds(gitdir) :
              ~Contains(SubSeq(gitdir, 1, i - 1), GitWorktreesPattern)
                  => extracted.result = Ok(SubSeq(gitdir, 1, i - 1))
        /\ ~Contains(gitdir, WorktreesPattern) => ~extracted.result.ok

\* C11 witness: a name of three segments with one named `worktrees`, and
\* the bare clone returned.
C11_Witness ==
    /\ extracted.called
    /\ gitdir = <<"/", "r", ".git", "/", "worktrees", "/", "f", "/", "worktrees", "/", "f">>
    /\ extracted.result = Ok(<<"/", "r", ".git">>)

(***************************************************************************)
(* Repository Discovery (utils.rs discover_bare_clone,                     *)
(* worktree_manager.rs discover_repo)                                      *)
(*                                                                         *)
(* A path is its text, a sequence of atoms as for the gitdir parser.  The  *)
(* tree holds the directories /p, /p/q, /p/r.git and /p/s.git; a process   *)
(* starts in /p or /p/q.                                                   *)
(***************************************************************************)

MaxCalls == 2

RootPath == <<"/">>
dP == <<"/", "p">>
dQ == <<"/", "p", "/", "q">>
dR == <<"/", "p", "/", "r", ".git">>
dS == <<"/", "p", "/", "s", ".git">>

\* Path::parent of an absolute path.
PathParent(path) ==
    IF path = RootPath THEN None
    ELSE Only({IF i = 1 THEN Some(RootPath) ELSE Some(SubSeq(path, 1, i - 1))
             : i \in {CHOOSE i \in DOMAIN path :
                         path[i] = "/" /\ \A j \in (i + 1)..Len(path) : path[j] # "/"}})

\* Path::join of a directory and a relative path.
PathJoin(dir, rel) == IF dir = RootPath THEN dir \o rel ELSE dir \o <<"/">> \o rel

RECURSIVE ResolveDots(_, _)
\* The segments of a path with every `..` taken with the segment before it.
ResolveDots(segments, seen) ==
    IF segments = <<>> THEN seen
    ELSE IF Head(segments) = <<"..">>
    THEN ResolveDots(Tail(segments), IF seen = <<>> THEN <<>> ELSE SubSeq(seen, 1, Len(seen) - 1))
    ELSE ResolveDots(Tail(segments), Append(seen, Head(segments)))

\* The directory the operating system reaches by an absolute path.
DirectoryOf(path) ==
    Only({IF segs = <<>> THEN RootPath
          ELSE Flatten([i \in DOMAIN segs |-> <<"/">> \o segs[i]])
        : segs \in {ResolveDots(SelectSeq(SplitAt(path, "/", <<>>), NotEmpty), <<>>)}})

NoGit == [kind |-> "none", content |-> <<>>]
GitDirectory == [kind |-> "dir", content |-> <<>>]
GitFile(content) == [kind |-> "file", content |-> content]

\* is_bare_repository: `git config --get core.bare`, run in the directory,
\* prints true.
IsBareRepository(t, repo_path) == DirectoryOf(repo_path) \in t.bare

\* is_bare_repo_by_structure: no `.git` entry, and HEAD, refs and objects.
IsBareRepoByStructure(t, repo_path) ==
    /\ ~(repo_path \in DOMAIN t.git /\ t.git[repo_path].kind # "none")
    /\ repo_path \in t.skeleton

\* check_git_indicator
CheckGitIndicator(t, dir_path) ==
    IF dir_path \in DOMAIN t.git THEN t.git[dir_path] ELSE NoGit

\* parse_git_file: the trimmed content matches `^gitdir:\s*(.+)$`.
ParseGitFile(content) ==
    Only({IF StartsWith(c, <<"gitdir:">>)
          THEN Only({IF rest # <<>> /\ ~Contains(rest, <<"\n">>) THEN Ok(rest)
                     ELSE Err("Invalid .git file format")
                   : rest \in {TrimStart(DropFirst(c, 1))}})
          ELSE Err("Invalid .git file format")
        : c \in {Trim(content)}})

\* fs::read_dir: the entries of a directory, in the order the system gives.
ReadDir(t, dir_path) == IF dir_path = dP THEN t.entries ELSE <<>>

RECURSIVE ScanEntries(_, _, _, _)
\* utils.rs 413-429: the first entry from place i on that is named *.git
\* and passes the structural test; tested are the paths tested so far.
ScanEntries(t, entries, i, tested) ==
    IF i > Len(entries) THEN [found |-> None, tested |-> tested]
    ELSE IF ~EndsWith(entries[i], <<".git">>) THEN ScanEntries(t, entries, i + 1, tested)
    ELSE IF IsBareRepoByStructure(t, entries[i])
    THEN [found |-> Some(entries[i]), tested |-> Append(tested, entries[i])]
    ELSE ScanEntries(t, entries, i + 1, Append(tested, entries[i]))

\* utils.rs 440-456: the bare clone a `.git` file of search_path leads to,
\* if it is one.
ResolveWorktree(t, search_path, content) ==
    Only({IF ~git_file.ok THEN None
          ELSE Only({IF bare.ok /\ IsBareRepository(t, bare.value) THEN Some(bare.value)
                     ELSE None
                   : bare \in {ExtractBareCloneFromGitdir(
                                  IF IsAbsolute(git_file.value) THEN git_file.value
                                  ELSE PathJoin(search_path, git_file.value))}})
        : git_file \in {ParseGitFile(content)}})

\* The result of discover_bare_clone: the path or the error, the value
\* GROVE_REPO is left with, the paths tested by structure and the levels
\* the walk looked at.
Discovered(bare_path, hint, tested, visited) ==
    [ok |-> TRUE, path |-> bare_path, is_regular_git_repo |-> FALSE, hint |-> hint,
     tested |-> tested, visited |-> visited]
NotDiscovered(is_regular_git_repo, hint, tested, visited) ==
    [ok |-> FALSE, path |-> <<>>, is_regular_git_repo |-> is_regular_git_repo, hint |-> hint,
     tested |-> tested, visited |-> visited]

RECURSIVE WalkUp(_, _, _, _, _)

\* utils.rs 433-466 with the walk ended at the first `.git` directory.
WalkUpToRegularRepo(t, search_path, found_regular_repo, tested, visited) ==
    IF search_path = RootPath \/ CheckGitIndicator(t, search_path).kind = "dir"
    THEN NotDiscovered(found_regular_repo \/ search_path # RootPath, None, tested, visited)
    ELSE Only({
        IF IsSome(bare_path)
        THEN Discovered(Unwrap(bare_path), None, tested, Append(visited, search_path))
        ELSE Only({WalkUp(t, parent, found_regular_repo, tested, seen)
                 : parent \in {Unwrap(PathParent(search_path))},
                   seen \in {Append(visited, search_path)}})
        : bare_path \in {IF CheckGitIndicator(t, search_path).kind = "file"
                         THEN ResolveWorktree(t, search_path,
                                              CheckGitIndicator(t, search_path).content)
                         ELSE None}})

\* utils.rs 433-466: the walk from search_path up to the root.
WalkUp(t, search_path, found_regular_repo, tested, visited) ==
    IF search_path = RootPath
    THEN NotDiscovered(found_regular_repo, None, tested, visited)
    ELSE Only({
        Only({IF IsSome(bare_path)
              THEN Discovered(Unwrap(bare_path), None, tested, Append(visited, search_path))
              ELSE Only({WalkUp(t, parent, found, tested, seen)
                       : parent \in {Unwrap(PathParent(search_path))},
                         found \in {found_regular_repo \/ indicator.kind = "dir"},
                         seen \in {Append(visited, search_path)}})
            : bare_path \in {IF indicator.kind = "file"
                             THEN ResolveWorktree(t, search_path, indicator.content)
                             ELSE None}})
        : indicator \in {CheckGitIndicator(t, search_path)}})

\* utils.rs 391-399 with the hint returned unverified.
DiscoverBareCloneTrustingHint(t, hint) ==
    IF IsSome(hint)
    THEN Discovered(Unwrap(hint), hint, <<>>, <<>>)
    ELSE IF IsBareRepoByStructure(t, t.start)
    THEN Discovered(t.start, None, <<t.start>>, <<>>)
    ELSE Only({IF IsSome(scan.found) THEN Discovered(Unwrap(scan.found), None, scan.tested, <<>>)
               ELSE WalkUp(t, t.start, FALSE, scan.tested, <<>>)
             : scan \in {ScanEntries(t, ReadDir(t, t.start), 1, <<t.start>>)}})

\* discover_bare_clone(None) in a process whose working directory is
\* t.start and whose GROVE_REPO is hint.
DiscoverBareClone(t, hint) ==
    IF IsSome(hint) /\ IsBareRepository(t, Unwrap(hint))
    THEN Discovered(Unwrap(hint), hint, <<>>, <<>>)
    ELSE IF IsBareRepoByStructure(t, t.start)
    THEN Discovered(t.start, None, <<t.start>>, <<>>)
    ELSE Only({IF IsSome(scan.found) THEN Discovered(Unwrap(scan.found), None, scan.tested, <<>>)
               ELSE WalkUp(t, t.start, FALSE, scan.tested, <<>>)
             : scan \in {ScanEntries(t, ReadDir(t, t.start), 1, <<t.start>>)}})

\* get_project_root
GetProjectRoot(bare_clone_path) ==
    IF IsSome(PathParent(bare_clone_path)) THEN Unwrap(PathParent(bare_clone_path))
    ELSE RootPath

\* The `.git` files of the tree: a worktree of /p/r.git, one of /p/s.git,
\* one of ../r.git, and a file that is no gitdir pointer.
GitFiles ==
    {<<"gitdir:", " ", "/", "p", "/", "r", ".git", "/", "worktrees", "/", "f", "\n">>,
     <<"gitdir:", " ", "/", "p", "/", "s", ".git", "/", "worktrees", "/", "f", "/", "g", "\n">>,
     <<"gitdir:", " ", "..", "/", "r", ".git", "/", "worktrees", "/", "f", "\n">>,
     <<"x", "\n">>}
Indicators == {NoGit, GitDirectory} \cup {GitFile(c) : c \in GitFiles}

\* What the root directory may hold as `.git`.
RootIndicators ==
    {NoGit, GitDirectory,
     GitFile(<<"gitdir:", " ", "/", "p", "/", "s", ".git", "/", "worktrees", "/", "f", "\n">>)}

Trees ==
    [start : {dP, dQ},
     git : {g \in [{RootPath, dP, dQ} -> Indicators \cup RootIndicators] :
               g[RootPath] \in RootIndicators /\ g[dP] \in Indicators /\ g[dQ] \in Indicators},
     skeleton : SUBSET {dP, dQ, dR, dS},
     bare : SUBSET {dR, dS}, entries : {<<dQ, dR, dS>>, <<dQ, dS, dR>>}]

InitDiscover ==
    /\ tree \in Trees
    /\ env \in {None, Some(dR), Some(dS)}
    /\ disc = <<>>
    /\ PathIdle /\ CreateIdle /\ MergeIdle /\ PruneIdle /\ ParseIdle /\ ExtractIdle /\ BootIdle /\ DurationIdle /\ ListIdle /\ LookupIdle

\* One call of discover_bare_clone(None), as find_grove_repo makes it.
DiscoverBareCloneCall ==
    /\ Len(disc) < MaxCalls
    /\ \E r \in {DiscoverBareClone(tree, env)} :
          /\ env' = r.hint
          /\ disc' = Append(disc, [op |-> "discover_bare_clone", hint |-> env, found |-> r,
                                   project_root |-> <<>>, cache |-> r.hint])
    /\ UNCHANGED <<tree, pathVars, createVars, mergeVars, pruneVars, parseVars, extractVars, bootVars, durationVars, listVars, lookupVars>>

\* worktree_manager.rs 19-30 without the env::set_var of line 24.
DiscoverRepoWithoutCache ==
    /\ Len(disc) < MaxCalls
    /\ \E r \in {DiscoverBareClone(tree, env)} :
          /\ env' = r.hint
          /\ disc' = Append(disc, [op |-> "discover_repo", hint |-> env, found |-> r,
                                   project_root |-> IF r.ok THEN GetProjectRoot(r.path)
                                                    ELSE <<>>,
                                   cache |-> r.hint])
    /\ UNCHANGED <<tree, pathVars, createVars, mergeVars, pruneVars, parseVars, extractVars, bootVars, durationVars, listVars, lookupVars>>

\* One call of discover_repo.
DiscoverRepoCall ==
    /\ Len(disc) < MaxCalls
    /\ \E r \in {DiscoverBareClone(tree, env)} :
       \E cache \in {IF r.ok THEN Some(r.path) ELSE r.hint} :
          /\ env' = cache
          /\ disc' = Append(disc, [op |-> "discover_repo", hint |-> env, found |-> r,
                                   project_root |-> IF r.ok THEN GetProjectRoot(r.path)
                                                    ELSE <<>>,
                                   cache |-> cache])
    /\ UNCHANGED <<tree, pathVars, createVars, mergeVars, pruneVars, parseVars, extractVars, bootVars, durationVars, listVars, lookupVars>>

NextDiscover == DiscoverBareCloneCall \/ DiscoverRepoCall

SpecDiscover == InitDiscover /\ [][NextDiscover]_vars

\* The levels the walk looks at: the directory and those above it, below
\* the root.
RECURSIVE LevelsFrom(_)
LevelsFrom(dir) ==
    IF dir = RootPath THEN <<>> ELSE <<dir>> \o LevelsFrom(Unwrap(PathParent(dir)))

\* The directories of the tree right below dir.
Subdirectories(dir) == {d \in {dP, dQ, dR, dS} : PathParent(d) = Some(dir)}

HasGitEntry(t, dir) == dir \in DOMAIN t.git /\ t.git[dir].kind # "none"
LooksBare(t, dir) == dir \in t.skeleton /\ ~HasGitEntry(t, dir)

\* The directory the gitdir pointer of a `.git` file in level stands in
\* front of `/worktrees/`, for the files of GitFiles.
PointedAt(level, content) ==
    IF content[1] # "gitdir:" THEN None
    ELSE IF content[3] = ".."
    THEN Some(PathJoin(Unwrap(PathParent(level)), SubSeq(content, 5, 6)))
    ELSE Some(SubSeq(content, 3, 7))

\* The level has a `.git` file that leads to a verified bare repository.
Qualifies(t, level) ==
    /\ level \in DOMAIN t.git /\ t.git[level].kind = "file"
    /\ IsSome(PointedAt(level, t.git[level].content))
    /\ Unwrap(PointedAt(level, t.git[level].content)) \in t.bare

\* Neither the hint, the starting directory nor one of its subdirectories
\* yields a bare repository.
NothingBelow(t, hint) ==
    /\ ~(IsSome(hint) /\ DirectoryOf(Unwrap(hint)) \in t.bare)
    /\ ~LooksBare(t, t.start)
    /\ \A d \in Subdirectories(t.start) : ~(EndsWith(d, <<".git">>) /\ LooksBare(t, d))

WalkOutcome(t, levels, visited, found) ==
    IF \E i \in DOMAIN levels : Qualifies(t, levels[i])
    THEN \E i \in DOMAIN levels :
            /\ Qualifies(t, levels[i])
            /\ \A j \in 1..(i - 1) : ~Qualifies(t, levels[j])
            /\ found.ok
            /\ DirectoryOf(found.path) = Unwrap(PointedAt(levels[i], t.git[levels[i]].content))
    ELSE /\ ~found.ok
         /\ found.is_regular_git_repo <=>
               \E i \in DOMAIN visited : t.git[visited[i]].kind = "dir"

\* C12: when the hint, the starting directory and its subdirectories yield
\* nothing, discover_bare_clone succeeds with the bare clone of the nearest
\* level, from the starting directory up to the root, whose `.git` file leads
\* to a verified bare repository, and fails where there is none, with
\* is_regular_git_repo telling whether a visited level had a `.git` directory.
C12_WalkFindsNearestWorktree ==
    \A k \in DOMAIN disc :
        NothingBelow(tree, disc[k].hint) =>
            \A visited \in {LevelsFrom(tree.start)} :
                WalkOutcome(tree, Append(visited, RootPath), visited, disc[k].found)

\* C12 as amended: the same over the levels below the root; the root
\* directory is not looked at.
C12_WalkFindsNearestBelowRoot ==
    \A k \in DOMAIN disc :
        NothingBelow(tree, disc[k].hint) =>
            \A visited \in {LevelsFrom(tree.start)} :
                WalkOutcome(tree, visited, visited, disc[k].found)

\* C12 witness: the process starts in /p/q, a regular repository, and /p
\* above it is a worktree of the verified bare clone /p/s.git.
C12_Witness ==
    /\ disc # <<>>
    /\ NothingBelow(tree, disc[1].hint)
    /\ tree.start = dQ /\ tree.git[dQ] = GitDirectory
    /\ Qualifies(tree, dP)
    /\ disc[1].found.ok /\ disc[1].found.path = dS
    /\ disc[1].found.visited = <<dQ, dP>>

\* GROVE_REPO is set and names, by any spelling, a bare repository.
HintVerified(t, hint) == IsSome(hint) /\ DirectoryOf(Unwrap(hint)) \in t.bare

\* C13: a verified GROVE_REPO is returned as it is, with no structural test
\* and no walk, wherever the process stands; an unverified one is cleared
\* and the call ends as it does with GROVE_REPO unset.
C13_HintFirst ==
    \A k \in DOMAIN disc :
        /\ HintVerified(tree, disc[k].hint) =>
              /\ disc[k].found.ok /\ disc[k].found.path = Unwrap(disc[k].hint)
              /\ disc[k].found.tested = <<>> /\ disc[k].found.visited = <<>>
              /\ disc[k].found.hint = disc[k].hint
        /\ IsSome(disc[k].hint) /\ ~HintVerified(tree, disc[k].hint) =>
              /\ disc[k].found.hint = None
              /\ disc[k].found = DiscoverBareClone(tree, None)

\* C13 witness: GROVE_REPO names /p/r.git, which is no bare repository; the
\* first call clears it and finds /p/s.git by the walk from /p/q; the second,
\* with that path as its hint, returns it having looked at no directory.
C13_Witness ==
    /\ Len(disc) = 2
    /\ disc[1].op = "discover_repo" /\ disc[1].hint = Some(dR) /\ dR \notin tree.bare
    /\ tree.start = dQ /\ disc[1].found.ok /\ disc[1].found.path = dS
    /\ disc[1].found.visited = <<dQ, dP>> /\ disc[1].found.hint = None
    /\ disc[2].hint = Some(dS) /\ disc[2].found.path = dS
    /\ disc[2].found.tested = <<>> /\ disc[2].found.visited = <<>>
    /\ Qualifies(tree, dQ) = FALSE /\ tree.git[dQ] = GitDirectory

\* dir is the directory that holds path: path is dir and one more segment.
IsParentOf(dir, path) ==
    \E i \in DOMAIN path :
        /\ path[i] = "/" /\ \A j \in (i + 1)..Len(path) : path[j] # "/"
        /\ i < Len(path)
        /\ dir = IF i = 1 THEN RootPath ELSE SubSeq(path, 1, i - 1)

\* C14: a successful discover_repo leaves GROVE_REPO at the path it returns,
\* with the project root the directory that holds it; every later
\* discover_repo of the process returns the same handle and leaves the
\* same GROVE_REPO; a failed one leaves GROVE_REPO unset.
C14_CacheWriteOnce ==
    /\ disc # <<>> => env = disc[Len(disc)].cache
    /\ \A k \in DOMAIN disc :
          disc[k].op = "discover_repo" =>
              IF disc[k].found.ok
              THEN /\ disc[k].cache = Some(disc[k].found.path)
                   /\ IsParentOf(disc[k].project_root, disc[k].found.path)
                   /\ \A j \in (k + 1)..Len(disc) :
                         disc[j].op = "discover_repo" =>
                             /\ disc[j].found.ok
                             /\ disc[j].found.path = disc[k].found.path
                             /\ disc[j].project_root = disc[k].project_root
                             /\ disc[j].cache = disc[k].cache
              ELSE disc[k].cache = None

\* C14 witness: with GROVE_REPO unset, discover_repo finds /p/s.git by the
\* walk from /p/q and caches it; the second discover_repo reads the cache.
C14_Witness ==
    /\ Len(disc) = 2 /\ env = Some(dS)
    /\ disc[1].op = "discover_repo" /\ disc[1].hint = None
    /\ disc[1].found.ok /\ disc[1].found.visited # <<>>
    /\ disc[1].found.path = dS /\ disc[1].project_root = dP
    /\ disc[2].op = "discover_repo" /\ disc[2].hint = Some(dS)
    /\ disc[2].found.visited = <<>> /\ disc[2].found.tested = <<>>
    /\ disc[2].project_root = dP

-----------------------------------------------------------------------------
(***************************************************************************)
(* Bootstrap Commands                                                      *)
(*                                                                         *)
(* run_bootstrap_commands, one loop iteration at a step.  What a spawned   *)
(* process does is the choice of the step.  `printed` and `spawned` are    *)
(* ghost lists of command indices; a failed entry carries the index of     *)
(* its command besides the pair the code stores.                           *)
(***************************************************************************)
MaxCommands == 3

\* format_bootstrap_command
FormatBootstrapCommand(command) ==
    IF command.args = <<>> THEN command.program
    ELSE command.program \o <<" ">> \o
         Flatten([i \in DOMAIN command.args |->
                     IF i = 1 THEN command.args[i] ELSE <<" ">> \o command.args[i]])

\* What Command::status gives: the process ends well, with an exit code,
\* by a signal, or is never started.
StatusResults ==
    {[spawn |-> "ok", success |-> TRUE, code |-> Some(0)],
     [spawn |-> "ok", success |-> FALSE, code |-> Some(1)],
     [spawn |-> "ok", success |-> FALSE, code |-> None],
     [spawn |-> "err", success |-> FALSE, code |-> None]}

FailureReason(result) ==
    IF result.spawn = "err" THEN <<"failed to execute: ">>
    ELSE IF IsSome(result.code) THEN <<"exit code ", Unwrap(result.code)>>
    ELSE <<"terminated by signal">>

Programs == {<<>>, <<" ", "\t">>, <<"g", "i", "t">>, <<" ", "s", "h">>}
BootstrapCommands == [program : Programs, args : {<<>>, <<<<"-", "v">>, <<"x">>>>}]

InitBootstrap ==
    /\ commands \in SeqsUpTo(BootstrapCommands, MaxCommands)
    /\ boot = [idx |-> 0, succeeded |-> 0, failed |-> <<>>, printed |-> <<>>,
               spawned |-> <<>>, returned |-> FALSE, summary |-> None]
    /\ PathIdle /\ CreateIdle /\ MergeIdle /\ PruneIdle /\ ParseIdle /\ ExtractIdle /\ DurationIdle /\ ListIdle /\ LookupIdle
    /\ DiscoverIdle

FailedEntry(command, reason, idx) ==
    [display |-> FormatBootstrapCommand(command), reason |-> reason, index |-> idx]

\* add.rs 261-304 with a `break` behind each push to `failed`.
BootstrapStepThenStop ==
    /\ ~boot.returned /\ boot.idx < Len(commands)
    /\ boot.failed = <<>>
    /\ \E idx \in {boot.idx + 1} : \E result \in StatusResults :
          boot' =
              IF Trim(commands[idx].program) = <<>>
              THEN [boot EXCEPT !.idx = idx, !.printed = Append(@, idx),
                        !.failed = Append(@, FailedEntry(commands[idx],
                                      <<"invalid command (empty program)">>, idx))]
              ELSE IF result.spawn = "ok" /\ result.success
              THEN [boot EXCEPT !.idx = idx, !.printed = Append(@, idx),
                        !.spawned = Append(@, idx), !.succeeded = @ + 1]
              ELSE [boot EXCEPT !.idx = idx, !.printed = Append(@, idx),
                        !.spawned = Append(@, idx),
                        !.failed = Append(@, FailedEntry(commands[idx],
                                                         FailureReason(result), idx))]
    /\ UNCHANGED <<commands, pathVars, createVars, mergeVars, pruneVars, parseVars,
                   extractVars, discoverVars, durationVars, listVars, lookupVars>>

\* One iteration of the loop of run_bootstrap_commands.
BootstrapStep ==
    /\ ~boot.returned /\ boot.idx < Len(commands)
    /\ \E idx \in {boot.idx + 1} : \E result \in StatusResults :
          boot' =
              IF Trim(commands[idx].program) = <<>>
              THEN [boot EXCEPT !.idx = idx, !.printed = Append(@, idx),
                        !.failed = Append(@, FailedEntry(commands[idx],
                                      <<"invalid command (empty program)">>, idx))]
              ELSE IF result.spawn = "ok" /\ result.success
              THEN [boot EXCEPT !.idx = idx, !.printed = Append(@, idx),
                        !.spawned = Append(@, idx), !.succeeded = @ + 1]
              ELSE [boot EXCEPT !.idx = idx, !.printed = Append(@, idx),
                        !.spawned = Append(@, idx),
                        !.failed = Append(@, FailedEntry(commands[idx],
                                                         FailureReason(result), idx))]
    /\ UNCHANGED <<commands, pathVars, createVars, mergeVars, pruneVars, parseVars,
                   extractVars, discoverVars, durationVars, listVars, lookupVars>>

\* The end of the loop: the summary is built and returned.
BootstrapReturn ==
    /\ ~boot.returned
    /\ ~ENABLED BootstrapStep
    /\ boot' = [boot EXCEPT !.returned = TRUE,
                   !.summary = Some([total |-> Len(commands), succeeded |-> boot.succeeded,
                                     failed |-> boot.failed])]
    /\ UNCHANGED <<commands, pathVars, createVars, mergeVars, pruneVars, parseVars,
                   extractVars, discoverVars, durationVars, listVars, lookupVars>>

NextBootstrap == BootstrapStep \/ BootstrapReturn
SpecBootstrap == InitBootstrap /\ [][NextBootstrap]_vars

\* The program is empty or holds white space only.
Blank(program) == \A i \in DOMAIN program : program[i] \in {" ", "\t", "\n", "\r"}

Increasing(indices) == \A i, j \in DOMAIN indices : i < j => indices[i] < indices[j]

\* C15: run_bootstrap_commands handles every command once, in the order of
\* the configuration, whatever fails; its summary has total = the number of
\* commands, succeeded + |failed| = total and `failed` in the order of the
\* configuration; a command with a blank program is failed and not spawned.
C15_BootstrapHandlesAll ==
    boot.returned =>
        \A summary \in {Unwrap(boot.summary)} :
            /\ boot.printed = [i \in 1..Len(commands) |-> i]
            /\ summary.total = Len(commands)
            /\ summary.succeeded + Len(summary.failed) = summary.total
            /\ Increasing([i \in DOMAIN summary.failed |-> summary.failed[i].index])
            /\ \A i \in DOMAIN summary.failed :
                  summary.failed[i].display =
                      FormatBootstrapCommand(commands[summary.failed[i].index])
            /\ Increasing(boot.spawned)
            /\ \A i \in DOMAIN commands :
                  IF Blank(commands[i].program)
                  THEN /\ \E j \in DOMAIN summary.failed : summary.failed[j].index = i
                       /\ \A j \in DOMAIN boot.spawned : boot.spawned[j] # i
                  ELSE \E j \in DOMAIN boot.spawned : boot.spawned[j] = i

\* C15 witness: three commands, the first blank, the second spawned and
\* failed, the third spawned and successful.
C15_Witness ==
    /\ boot.returned /\ Len(commands) = 3
    /\ Blank(commands[1].program) /\ boot.spawned = <<2, 3>>
    /\ Len(boot.failed) = 2 /\ boot.failed[2].index = 2
    /\ boot.succeeded = 1

-----------------------------------------------------------------------------
(***************************************************************************)
(* Duration Normalizer                                                     *)
(*                                                                         *)
(* normalize_duration and parse_duration, called on one text: shorthand    *)
(* of every unit, canonical interval strings of every choice of            *)
(* components, and texts that are neither.                                 *)
(***************************************************************************)
MaxCount == 1

\* The counts of a shorthand: small, with leading zeros, the last number of
\* years whose milliseconds a float holds exactly, and one beyond u64.
ShorthandCounts ==
    {<<"1">>, <<"2">>, <<"3", "0">>, <<"0", "0", "7">>, <<"2", "8", "5", "6", "1", "6">>,
     <<"9", "9", "9", "9", "9", "9", "9", "9", "9">>}
ShorthandTexts == {n \o <<u>> : n \in ShorthandCounts, u \in ShorthandUnits}

\* One component of a canonical interval string: absent for count 0.
Component(count, designator) ==
    IF count = 0 THEN <<>> ELSE U64ToString(count) \o <<designator>>

\* P[nY][nM][nW][nD][T[nH][nM][nS]] for the counts c of the seven
\* components; the T is there when a time component is.
Canonical(c) ==
    <<"P">> \o Component(c[1], "Y") \o Component(c[2], "M") \o Component(c[3], "W")
            \o Component(c[4], "D")
            \o (IF c[5] + c[6] + c[7] = 0 THEN <<>> ELSE <<"T">>)
            \o Component(c[5], "H") \o Component(c[6], "M") \o Component(c[7], "S")

ComponentCounts == {c \in [1..7 -> 0..MaxCount] : \E i \in 1..7 : c[i] > 0}
CanonicalTexts == {Canonical(c) : c \in ComponentCounts}

\* 2^63 milliseconds, in seconds: two of them add up to 2^64.
HalfRange ==
    <<"9", "2", "2", "3", "3", "7", "2", "0", "3", "6", "8", "5", "4", "7", "7", "5", ".",
      "8", "0", "8", "S">>

OtherTexts ==
    {<<>>, <<" ">>, <<" ", "\t", " ">>, <<"x">>, <<"3", "0">>, <<"P">>, <<"P", "T">>,
     <<"P", "0", "D">>, <<"P", "T", "0", "S">>, <<"0", "d">>, <<"0", ".", "0", "0", "0", "1", "s">>,
     <<"P", "d", "a", "y", "s">>, <<"3", "0", " ", "d", "a", "y", "s">>, <<"p", "1", "y">>,
     <<"1", " ", "d">>, <<" ", "1", "d", " ">>, <<"1", ".", "5", "d">>, <<"P", "1", "X", "2", "D">>,
     <<"P", "9", "9", "9", "9", "9", "9", "9", "9", "9", "Y">>,
     <<"P", "9", "9", "9", "9", "9", "9", "9", "9", "9", "Y", "9", "9", "9", "9", "9", "9",
       "9", "9", "9", "Y">>,
     <<"P", "T">> \o HalfRange \o HalfRange,
     <<"P", "3", "0", "D">>, <<"P", "2", "W">>, <<"P", "3", "M">>, <<"P", "T", "3", "0", "M">>,
     <<"P", "1", "D", "T", "1", "2", "H">>, <<"P", "2", "Y", "3", "M", "T", "4", "M", "5", "S">>}

DurationTexts == ShorthandTexts \cup CanonicalTexts \cup OtherTexts

InitDuration ==
    /\ duration_input \in DurationTexts
    /\ duration_calls = [normalized |-> None, parsed |-> None]
    /\ PathIdle /\ CreateIdle /\ MergeIdle /\ PruneIdle /\ ParseIdle /\ ExtractIdle
    /\ DiscoverIdle /\ BootIdle /\ ListIdle /\ LookupIdle

\* One call of normalize_duration.
NormalizeDurationCall ==
    /\ duration_calls.normalized = None
    /\ duration_calls' =
          [duration_calls EXCEPT !.normalized = Some(NormalizeDuration(duration_input))]
    /\ UNCHANGED <<duration_input, pathVars, createVars, mergeVars, pruneVars, parseVars,
                   extractVars, discoverVars, bootVars, listVars, lookupVars>>

\* One call of parse_duration.
ParseDurationCall ==
    /\ duration_calls.parsed = None
    /\ duration_calls' = [duration_calls EXCEPT !.parsed = Some(ParseDuration(duration_input))]
    /\ UNCHANGED <<duration_input, pathVars, createVars, mergeVars, pruneVars, parseVars,
                   extractVars, discoverVars, bootVars, listVars, lookupVars>>

NextDuration == NormalizeDurationCall \/ ParseDurationCall
SpecDuration == InitDuration /\ [][NextDuration]_vars

\* The text is a shorthand <n><unit> with an integer n >= 1.
IsShorthand(text) ==
    /\ Len(text) >= 2 /\ text[Len(text)] \in ShorthandUnits
    /\ \A i \in 1..(Len(text) - 1) : IsDigit(text[i])
    /\ \E i \in 1..(Len(text) - 1) : text[i] # "0"

\* The milliseconds of a unit of the shorthand: M is the month and m the
\* minute; the other units read the same in either case.
UnitMs(unit) ==
    CASE unit \in {"s", "S"} -> MS_PER_SECOND
      [] unit = "m" -> MS_PER_MINUTE
      [] unit \in {"h", "H"} -> MS_PER_HOUR
      [] unit \in {"d", "D"} -> MS_PER_DAY
      [] unit \in {"w", "W"} -> MS_PER_WEEK
      [] unit = "M" -> MS_PER_MONTH
      [] unit \in {"y", "Y"} -> MS_PER_YEAR

\* n times the unit constant, for the shorthand <n><unit>.
ShorthandMs(text) == BigMul(BigOfText(SubSeq(text, 1, Len(text) - 1)), UnitMs(text[Len(text)]))

\* 2^53, up to where every whole number is a float.
EXACT_F64_MAX ==
    BigOfText(<<"9", "0", "0", "7", "1", "9", "9", "2", "5", "4", "7", "4", "0", "9", "9", "2">>)

\* C16: for a shorthand <n><unit> with n >= 1, parse_duration returns n
\* times the unit constant, M read as months, m as minutes and every other
\* unit the same in either case.
C16_ShorthandTimesUnit ==
    IsShorthand(duration_input) /\ IsSome(duration_calls.parsed) =>
        Unwrap(duration_calls.parsed) = Ok(ShorthandMs(duration_input))

\* C16 as amended: the same for the shorthands whose product is at most 2^53.
C16_ShorthandTimesUnitInRange ==
    /\ IsShorthand(duration_input) /\ IsSome(duration_calls.parsed)
    /\ ~BigLess(EXACT_F64_MAX, ShorthandMs(duration_input))
    => Unwrap(duration_calls.parsed) = Ok(ShorthandMs(duration_input))

\* C16 witness: parse_duration("30m") is 1,800,000 and not 30 months.
C16_Witness ==
    /\ duration_input = <<"3", "0", "m">>
    /\ duration_calls.parsed = Some(Ok(BigOfText(<<"1", "8", "0", "0", "0", "0", "0">>)))

\* The text is empty or white space only.
BlankText(text) == \A i \in DOMAIN text : text[i] \in {" ", "\t", "\n", "\r"}

\* The text holds no digit from 1 to 9: whatever it counts, it counts zero.
CountsNothing(text) == \A i \in DOMAIN text : ~(IsDigit(text[i]) /\ text[i] # "0")

\* C17: parse_duration never returns Ok(0); the empty text, a text of white
\* space and a text whose total is zero milliseconds yield an error.
C17_NeverOkZero ==
    IsSome(duration_calls.parsed) =>
        \A result \in {Unwrap(duration_calls.parsed)} :
            /\ result.ok => result.value # <<>> /\ result.value[Len(result.value)] \in 1..9
            /\ BlankText(duration_input) \/ CountsNothing(duration_input) => ~result.ok
            /\ ~result.ok /\ ~BlankText(duration_input) =>
                  ParseIso8601Duration(NormalizeDuration(duration_input)) = <<>>

\* C17 witness: P0D has a component and a total of zero, and is refused.
C17_Witness ==
    /\ duration_input = <<"P", "0", "D">>
    /\ IsSome(duration_calls.parsed) /\ ~Unwrap(duration_calls.parsed).ok
    /\ duration_calls.normalized = Some(duration_input)

\* The canonical interval string of seven counts written as digits, an
\* absent component written as the empty text.
CanonicalOf(ns) ==
    LET part(i, designator) == IF ns[i] = <<>> THEN <<>> ELSE ns[i] \o <<designator>>
    IN  <<"P">> \o part(1, "Y") \o part(2, "M") \o part(3, "W") \o part(4, "D")
            \o (IF ns[5] \o ns[6] \o ns[7] = <<>> THEN <<>> ELSE <<"T">>)
            \o part(5, "H") \o part(6, "M") \o part(7, "S")

\* The digits right before index k of the text.
DigitsBefore(text, k) ==
    SubSeq(text,
           CHOOSE j \in 1..k : /\ \A i \in j..(k - 1) : IsDigit(text[i])
                               /\ j = 1 \/ ~IsDigit(text[j - 1]),
           k - 1)

\* The count in front of the designator, looked for before the T or behind
\* it; the empty text where there is none.
CountRead(text, designator, time) ==
    LET t == IndexOf(text, "T")
        ks == {k \in DOMAIN text : text[k] = designator /\ ((t > 0 /\ k > t) <=> time)}
    IN  IF ks = {} THEN <<>> ELSE DigitsBefore(text, CHOOSE k \in ks : TRUE)

CountsRead(text) ==
    <<CountRead(text, "Y", FALSE), CountRead(text, "M", FALSE), CountRead(text, "W", FALSE),
      CountRead(text, "D", FALSE), CountRead(text, "H", TRUE), CountRead(text, "M", TRUE),
      CountRead(text, "S", TRUE)>>

\* The text is P[nY][nM][nW][nD][T[nH][nM][nS]] with a component or more.
IsCanonical(text) ==
    /\ text # <<>> /\ text[1] = "P"
    /\ \A ns \in {CountsRead(text)} :
          (\E i \in 1..7 : ns[i] # <<>>) /\ CanonicalOf(ns) = text

\* The fixed constants of the seven components: the M before the T is 30
\* days, the M behind it 60 seconds.
ComponentMs ==
    <<MS_PER_YEAR, MS_PER_MONTH, MS_PER_WEEK, MS_PER_DAY, MS_PER_HOUR, MS_PER_MINUTE,
      MS_PER_SECOND>>

\* What each component contributes.
Contributions(ns) ==
    [i \in 1..7 |-> IF ns[i] = <<>> THEN <<>> ELSE BigMul(BigOfText(ns[i]), ComponentMs[i])]

\* The sum of the contributions of the components.
SumOf(parts) ==
    BigAdd(BigAdd(BigAdd(parts[1], parts[2]), BigAdd(parts[3], parts[4])),
           BigAdd(BigAdd(parts[5], parts[6]), parts[7]))

\* The canonical form of a shorthand <n><unit>.
CanonicalForm(text) ==
    (IF text[Len(text)] \in {"h", "H", "m", "s", "S"} THEN <<"P", "T">> ELSE <<"P">>)
        \o SubSeq(text, 1, Len(text) - 1)
        \o <<CASE text[Len(text)] \in {"s", "S"} -> "S" [] text[Len(text)] \in {"m", "M"} -> "M"
               [] text[Len(text)] \in {"h", "H"} -> "H" [] text[Len(text)] \in {"d", "D"} -> "D"
               [] text[Len(text)] \in {"w", "W"} -> "W" [] text[Len(text)] \in {"y", "Y"} -> "Y">>

InRange(parts, sum) == sum # <<>> /\ \A i \in 1..7 : ~BigLess(EXACT_F64_MAX, parts[i])

CanonicalOutcome(text, calls, inRange) ==
    /\ IsSome(calls.parsed) /\ IsCanonical(text) =>
          \A parts \in {Contributions(CountsRead(text))} : \A sum \in {SumOf(parts)} :
              (inRange => InRange(parts, sum)) => Unwrap(calls.parsed) = Ok(sum)
    /\ IsSome(calls.normalized) /\ IsCanonical(text) => Unwrap(calls.normalized) = text
    /\ IsSome(calls.parsed) /\ IsShorthand(text) =>
          Unwrap(calls.parsed) = ParseDuration(CanonicalForm(text))

\* C18: parse_duration of a canonical interval string is the sum of the
\* contributions of its components, the M before the T counting 30 days
\* and the M behind it 60 seconds; a shorthand evaluates as its canonical
\* form does, and normalize_duration returns a canonical string as it is.
C18_CanonicalSum == CanonicalOutcome(duration_input, duration_calls, FALSE)

\* C18 as amended: the sum for the strings whose components contribute at
\* most 2^53 milliseconds each and more than nothing together.
C18_CanonicalSumInRange == CanonicalOutcome(duration_input, duration_calls, TRUE)

\* C18 witness: P2Y3MT4M5S, with both readings of M, has been normalized
\* and parsed.
C18_Witness ==
    /\ duration_input = <<"P", "2", "Y", "3", "M", "T", "4", "M", "5", "S">>
    /\ duration_calls.normalized = Some(duration_input)
    /\ IsSome(duration_calls.parsed) /\ Unwrap(duration_calls.parsed).ok
    /\ Unwrap(duration_calls.parsed).value =
          BigOfText(<<"7", "0", "8", "4", "8", "2", "4", "5", "0", "0", "0">>)

-----------------------------------------------------------------------------
(***************************************************************************)
(* The commands add, init and prune, each from its first line to its exit. *)
(***************************************************************************)
\* The rejections of a command precede its work, so the prune runs start from
\* the shorter listings.
InitCommand == InitCreate \/ (InitPrune /\ Len(worktrees) < MaxWorktrees)

NextCommand ==
    \/ opts = NoOptions /\ AddRun
    \/ opts = NoOptions /\ InitRun
    \/ opts # NoOptions /\ PruneRun

SpecCommand == InitCommand /\ [][NextCommand]_vars

\* The name `grove add` is to use, given or generated, is missing or one
\* the path validator rejects, or the tracking reference is malformed.
AddInputRejected(input) ==
    \A spec \in {IF IsSome(input.name) THEN input.name ELSE input.generated} :
        \/ ~IsSome(spec)
        \/ ~GetWorktreePath(Unwrap(spec), fs.root, fs.nodes).ok
        \/ ~ResolveTargetBranch(Unwrap(spec), input.track).ok

\* --base is given together with --older-than, or the duration is malformed.
PruneInputRejected(o) ==
    \/ IsSome(o.older_than) /\ IsSome(o.base)
    \/ IsSome(o.older_than) /\ ~ParseOlderThan(Unwrap(o.older_than)).ok

-----------------------------------------------------------------------------
(***************************************************************************)
(* The listing: list_worktrees, called again and again on a repository     *)
(* that does not change.                                                   *)
(***************************************************************************)
MaxBlocks == 2
MaxListCalls == 2

pathA == <<"/a">>
pathB == <<"/b">>
ListedPaths == {pathA, pathB}

\* The blocks git prints: two worktrees at /a, two at /b, one of them locked
\* and one prunable, and the bare repository.
BlockPool ==
    {<<<<"worktree", " ", "/a">>, <<"HEAD", " ", "1a">>,
       <<"branch", " ", "refs/heads/", "main">>>>,
     <<<<"worktree", " ", "/a">>, <<"HEAD", " ", "2a">>, <<"detached">>>>,
     <<<<"worktree", " ", "/b">>, <<"HEAD", " ", "1b">>,
       <<"branch", " ", "refs/heads/", "f">>, <<"locked">>>>,
     <<<<"worktree", " ", "/b">>, <<"HEAD", " ", "2b">>,
       <<"branch", " ", "refs/heads/", "g">>, <<"prunable">>>>,
     <<<<"worktree", " ", "/r.git">>, <<"bare">>>>}

\* A block as text: its lines and the blank line behind them.
BlockText(block) == Flatten([i \in DOMAIN block |-> block[i] \o <<"\n">>]) \o <<"\n">>

ListedTexts ==
    {Flatten([i \in DOMAIN bs |-> BlockText(bs[i])]) : bs \in SeqsUpTo(BlockPool, MaxBlocks)}

\* fs::Metadata as metadata_created_at reads it: created() in milliseconds
\* from the epoch, or an error where the filesystem keeps no birth time, and
\* ctime and mtime in seconds.
MetadataPool ==
    {[created |-> Ok(1999), ctime |-> 7, mtime |-> 9],
     [created |-> Ok(0 - 1500), ctime |-> 7, mtime |-> 9],
     [created |-> Err("unsupported"), ctime |-> 7, mtime |-> 9],
     [created |-> Err("unsupported"), ctime |-> 0, mtime |-> 9],
     [created |-> Err("unsupported"), ctime |-> 0, mtime |-> 0]}

\* What the listing reads: the answer of `git worktree list --porcelain`, the
\* metadata of the paths (None: no such path), the paths `git status` has
\* something to print for, and the clock, in seconds.
Repositories ==
    {[output |-> output, metadata |-> pathA :> ma @@ pathB :> mb, dirty |-> dirty,
      clock |-> 100]
        : output \in {Err(<<"fatal: not a git repository">>)} \cup {Ok(t) : t \in ListedTexts},
          ma \in {None} \cup {Some(md) : md \in MetadataPool},
          mb \in {None, Some([created |-> Ok(3000), ctime |-> 7, mtime |-> 9])},
          dirty \in {{pathA}, ListedPaths}}

\* worktree_manager.rs 438-441; the seconds are the whole ones.
SystemTimeToDatetime(system_time) ==
    IF system_time < 0 THEN None ELSE Some(system_time \div 1000)

\* worktree_manager.rs 443-467 on Unix.
MetadataCreatedAt(meta) ==
    IF meta.created.ok THEN SystemTimeToDatetime(meta.created.value)
    ELSE IF meta.ctime > 0 THEN Some(meta.ctime)
    ELSE IF meta.mtime > 0 THEN Some(meta.mtime)
    ELSE None

\* fs::metadata(path).ok()
FsMetadata(repo, path) ==
    IF path \in DOMAIN repo.metadata THEN repo.metadata[path] ELSE None

\* Command::output() of `git status --porcelain` with path as its directory:
\* an error when the process cannot be started (status_runs is false, or
\* there is no such directory), else what it wrote to its standard output.
GitStatus(repo, path, status_runs) ==
    IF ~status_runs \/ ~IsSome(FsMetadata(repo, path)) THEN Err("spawn")
    ELSE IF path \in repo.dirty THEN Ok(<<" M ", "file", "\n">>)
    ELSE Ok(<<>>)

\* worktree_manager.rs 413-418 where a status that cannot be run counts as
\* changes.
StatusDirtyUnlessClean(repo, path, status_runs) ==
    \A output \in {GitStatus(repo, path, status_runs)} :
        IF output.ok THEN output.value # <<>> ELSE TRUE

\* worktree_manager.rs 413-418: .map(|output| !output.stdout.is_empty())
\* .unwrap_or(false)
StatusDirty(repo, path, status_runs) ==
    \A output \in {GitStatus(repo, path, status_runs)} :
        IF output.ok THEN output.value # <<>> ELSE FALSE

UnwrapOrEmpty(o) == IF IsSome(o) THEN Unwrap(o) ELSE <<>>

\* complete_worktree_info where a missing creation time becomes the time of
\* the call.
CompleteWorktreeInfoOrNow(partial, repo, status_runs) ==
    LET path == UnwrapOrEmpty(partial.path)
        branch == UnwrapOrEmpty(partial.branch)
        meta == FsMetadata(repo, path)
        created == IF IsSome(meta) THEN MetadataCreatedAt(Unwrap(meta)) ELSE None
    IN  [path |-> path, branch |-> branch, head |-> UnwrapOrEmpty(partial.head),
         created_at |-> IF IsSome(created) THEN Unwrap(created) ELSE repo.clock,
         is_dirty |-> StatusDirty(repo, path, status_runs),
         is_locked |-> partial.is_locked, is_prunable |-> partial.is_prunable,
         is_main |-> branch \in MAIN_BRANCHES]

\* complete_worktree_info, worktree_manager.rs 405-436.
CompleteWorktreeInfo(partial, repo, status_runs) ==
    LET path == UnwrapOrEmpty(partial.path)
        branch == UnwrapOrEmpty(partial.branch)
        meta == FsMetadata(repo, path)
        created == IF IsSome(meta) THEN MetadataCreatedAt(Unwrap(meta)) ELSE None
    IN  [path |-> path, branch |-> branch, head |-> UnwrapOrEmpty(partial.head),
         created_at |-> IF IsSome(created) THEN Unwrap(created) ELSE 0,
         is_dirty |-> StatusDirty(repo, path, status_runs),
         is_locked |-> partial.is_locked, is_prunable |-> partial.is_prunable,
         is_main |-> branch \in MAIN_BRANCHES]

\* list_worktrees, worktree_manager.rs 55-65: git_runs tells whether the git
\* subprocess could be run, status_runs whether `git status` could.
ListWorktrees(repo, git_runs, status_runs) ==
    IF ~git_runs THEN Err(<<"Failed to list worktrees: ", "Failed to execute git">>)
    ELSE IF ~repo.output.ok THEN Err(<<"Failed to list worktrees: ">> \o repo.output.value)
    ELSE Only({Ok([i \in DOMAIN partials |->
                       CompleteWorktreeInfo(partials[i], repo, status_runs)])
                 : partials \in {ParseWorktreeLines(repo.output.value)}})

InitList ==
    /\ repository \in Repositories
    /\ listings = <<>>
    /\ PathIdle /\ CreateIdle /\ MergeIdle /\ PruneIdle /\ ParseIdle /\ ExtractIdle
    /\ DiscoverIdle /\ BootIdle /\ DurationIdle /\ LookupIdle

\* One call of list_worktrees; between two calls nothing but the time
\* changes.  The result is kept with what the call met: whether git and
\* `git status` could be run.
ListWorktreesCall ==
    /\ Len(listings) < MaxListCalls
    /\ \E git_runs \in BOOLEAN :
       \E status_runs \in IF git_runs THEN BOOLEAN ELSE {FALSE} :
          listings' = Append(listings,
                             ListWorktrees(repository, git_runs, status_runs)
                                 @@ [git_runs |-> git_runs, status_runs |-> status_runs])
    /\ repository' = [repository EXCEPT !.clock = @ + 1]
    /\ UNCHANGED <<pathVars, createVars, mergeVars, pruneVars, parseVars, extractVars,
                   discoverVars, bootVars, durationVars, lookupVars>>

NextList == ListWorktreesCall

SpecList == InitList /\ [][NextList]_vars

\* The fields of a listed worktree besides is_dirty.
StableFields(wt) ==
    [path |-> wt.path, branch |-> wt.branch, head |-> wt.head,
     created_at |-> wt.created_at, is_locked |-> wt.is_locked,
     is_prunable |-> wt.is_prunable, is_main |-> wt.is_main]

\* The paths of the header lines whose block has no `bare` line, in the
\* order of the lines.
ReportedFrom(lines) ==
    LET hs == {h \in DOMAIN lines : IsHeader(lines[h]) /\ ~HasBareLine(lines, h)}
    IN  [k \in 1..Cardinality(hs) |->
            DropFirst(lines[CHOOSE h \in hs : Cardinality({g \in hs : g < h}) = k - 1], 2)]

\* The paths git reports, in its order.
ReportedPaths(text) == Only({ReportedFrom(lines) : lines \in {Lines(Trim(text))}})

\* C20: two calls of list_worktrees on an unchanged repository return
\* sequences of the same length, in the order git reports the worktrees,
\* that agree at every position on path, branch, head, created_at, is_locked,
\* is_prunable and is_main.
C20_ListingRepeats ==
    /\ \A i, j \in DOMAIN listings :
          listings[i].ok /\ listings[j].ok
          => /\ Len(listings[i].value) = Len(listings[j].value)
             /\ \A k \in DOMAIN listings[i].value :
                   StableFields(listings[i].value[k]) = StableFields(listings[j].value[k])
    /\ (\E i \in DOMAIN listings : listings[i].ok)
       => \A reported \in {ReportedPaths(repository.output.value)} :
             \A i \in DOMAIN listings :
                listings[i].ok
                => [k \in DOMAIN listings[i].value |-> listings[i].value[k].path] = reported

\* C20 witness: two calls have listed the same two worktrees, one of them
\* without a creation time, and differ in is_dirty.
C20_Witness ==
    /\ Len(listings) = 2 /\ listings[1].ok /\ listings[2].ok
    /\ Len(listings[1].value) = 2
    /\ listings[1].value[1].path # listings[1].value[2].path
    /\ \E k \in 1..2 : listings[1].value[k].created_at = 0
    /\ \E k \in 1..2 : listings[1].value[k].created_at > 0
    /\ \E k \in 1..2 : listings[1].value[k].is_dirty # listings[2].value[k].is_dirty

\* C24: a listed worktree is dirty exactly if `git status` ran in it and
\* wrote something; and a listing whose `git worktree list` succeeded has one
\* record for every worktree the parser returns, at the parser's paths,
\* whether or not the status could be run in each of them.
C24_DirtyOnlyFromStatusOutput ==
    \A i \in DOMAIN listings :
        /\ listings[i].ok
           => \A k \in DOMAIN listings[i].value :
                 \A status \in {GitStatus(repository, listings[i].value[k].path,
                                          listings[i].status_runs)} :
                    listings[i].value[k].is_dirty <=> (status.ok /\ status.value # <<>>)
        /\ (listings[i].git_runs /\ repository.output.ok)
           => /\ listings[i].ok
              /\ \A partials \in {ParseWorktreeLines(repository.output.value)} :
                    /\ Len(listings[i].value) = Len(partials)
                    /\ \A k \in DOMAIN partials :
                          Some(listings[i].value[k].path) = partials[k].path

\* C24 witness: a listing of two worktrees where the status could not be run
\* in one, which is listed clean, and wrote something in the other.
C24_Witness ==
    \E i \in DOMAIN listings :
        /\ listings[i].ok /\ Len(listings[i].value) = 2
        /\ \E k, l \in 1..2 :
              /\ ~GitStatus(repository, listings[i].value[k].path,
                            listings[i].status_runs).ok
              /\ ~listings[i].value[k].is_dirty
              /\ listings[i].value[l].is_dirty

-----------------------------------------------------------------------------
(***************************************************************************)
(* The remove command (commands/remove.rs) and the lookups of a worktree   *)
(* by name.                                                                *)
(***************************************************************************)

\* utils::trim_trailing_branch_slashes: the value without the slashes at its
\* end.
TrimTrailingBranchSlashes(value) == TrimEndMatches(value, "/")

\* Iterator::find: the first worktree of the listing that is one of matching
\* (a function from the places to BOOLEAN), or None.
FirstOf(wts, matching) ==
    IF \E i \in DOMAIN wts : matching[i]
    THEN Some(wts[CHOOSE i \in DOMAIN wts : matching[i] /\ \A j \in 1..(i - 1) : ~matching[j]])
    ELSE None

\* remove.rs 112-127
FindWorktreeByIdentifier(wts, identifier) ==
    LET trimmed_identifier == Trim(identifier)
        normalized_branch == TrimTrailingBranchSlashes(trimmed_identifier)
        normalized_path == TrimEndMatches(trimmed_identifier, "/")
    IN  FirstOf(wts, [i \in DOMAIN wts |->
            \/ wts[i].path = trimmed_identifier
            \/ TrimEndMatches(wts[i].path, "/") = normalized_path
            \/ /\ normalized_branch # <<>>
               /\ \/ wts[i].branch = normalized_branch
                  \/ EndsWith(wts[i].path, <<"/">> \o normalized_branch)])

\* The worktrees at the places keep of the listing, in its order.
Kept(wts, keep) ==
    [k \in 1..Cardinality(keep) |->
        wts[CHOOSE i \in keep : Cardinality({j \in keep : j < i}) = k - 1]]

\* remove.rs 129-133: the worktrees offered for selection.
Removable(wts) == Kept(wts, {i \in DOMAIN wts : ~wts[i].is_main /\ ~wts[i].is_locked})

\* The listing after git has removed the worktree at path.
Without(wts, path) == Kept(wts, {i \in DOMAIN wts : wts[i].path # path})

\* The names given to `grove remove`: branches, a path, a name with a slash
\* behind it, a name no worktree has, and a blank one.
RemoveNames ==
    {bF, bG, bH, bK, bMain, <<"/", "w", "/", "f">>, <<"f", "/">>, <<"x">>, <<" ">>}

RemoveEnded(input, exit) ==
    CmdResult("remove", [input EXCEPT !.remaining = worktrees], {}, <<>>, exit)

\* remove.rs 44-108 without the test of is_locked.
RemoveSelectedUnlocked(input, worktree, answer, removeOk) ==
    IF worktree.is_main THEN RemoveEnded(input, "error")
    ELSE IF worktree.is_dirty /\ ~input.force THEN RemoveEnded(input, "error")
    ELSE IF ~input.yes /\ ~Confirmed(answer) THEN RemoveEnded(input, "cancelled")
    ELSE CmdResult("remove",
                   [input EXCEPT !.remaining =
                       IF removeOk
                       THEN Without(worktrees, worktree.path)
                       ELSE worktrees],
                   {}, <<GitWorktreeRemove(worktree.path, input.force)>>,
                   IF removeOk THEN "removed" ELSE "error")

\* remove.rs 44-108: what the run does with the worktree selected.
RemoveSelected(input, worktree, answer, removeOk) ==
    IF worktree.is_main THEN RemoveEnded(input, "error")
    ELSE IF worktree.is_locked THEN RemoveEnded(input, "error")
    ELSE IF worktree.is_dirty /\ ~input.force THEN RemoveEnded(input, "error")
    ELSE IF ~input.yes /\ ~Confirmed(answer) THEN RemoveEnded(input, "cancelled")
    ELSE CmdResult("remove",
                   [input EXCEPT !.remaining =
                       IF removeOk
                       THEN Without(worktrees, worktree.path)
                       ELSE worktrees],
                   {}, <<GitWorktreeRemove(worktree.path, input.force)>>,
                   IF removeOk THEN "removed" ELSE "error")

InitRemove ==
    /\ worktrees \in Listings
    /\ opts = NoOptions /\ now = <<>> /\ prune = NotCalled
    /\ PathIdle /\ CreateIdle /\ MergeIdle /\ ParseIdle /\ ExtractIdle /\ DiscoverIdle
    /\ BootIdle /\ DurationIdle /\ ListIdle /\ LookupIdle

\* commands/remove.rs run: one run of `grove remove [name] [--force] [--yes]`
\* where the repository is discovered and listed or not, the terminal is a
\* TTY or not, the user picks the worktree at place picked of the selection
\* (0: none) and gives answer at the prompt, and git removes the worktree or
\* fails.
RemoveRun ==
    /\ ~cmd.called
    /\ \E name \in {None} \cup {Some(n) : n \in RemoveNames}, force, yes \in BOOLEAN,
          listed \in BOOLEAN :
          LET by_name == IsSome(name) /\ Trim(Unwrap(name)) # <<>>
              found == IF by_name THEN FindWorktreeByIdentifier(worktrees, Unwrap(name))
                       ELSE None
              removable == Removable(worktrees)
          IN
          \E tty \in IF listed /\ ~by_name /\ removable # <<>> THEN BOOLEAN ELSE {FALSE} :
          \E picked \in IF tty THEN 0..Len(removable) ELSE {0} :
             LET selected == IF by_name THEN found
                             ELSE IF picked = 0 THEN None ELSE Some(removable[picked])
                 asking == IsSome(selected) /\ ~yes /\ ~Unwrap(selected).is_main
                           /\ ~Unwrap(selected).is_locked
                           /\ (~Unwrap(selected).is_dirty \/ force)
             IN
             \E answer \in IF asking THEN {"yes", "no", "error"} ELSE {"none"} :
             \E removeOk \in IF IsSome(selected) /\ (yes \/ Confirmed(answer))
                             THEN BOOLEAN ELSE {FALSE} :
                LET input == [name |-> name, force |-> force, yes |-> yes,
                              listed |-> listed, selected |-> selected,
                              answer |-> answer, remaining |-> worktrees]
                IN  cmd' =
                       IF ~listed THEN RemoveEnded(input, "error")
                       ELSE IF by_name /\ found = None THEN RemoveEnded(input, "error")
                       ELSE IF ~by_name /\ (removable = <<>> \/ ~tty)
                       THEN RemoveEnded(input, "error")
                       ELSE IF selected = None THEN RemoveEnded(input, "cancelled")
                       ELSE RemoveSelected(input, Unwrap(selected), answer, removeOk)
    /\ UNCHANGED <<fs, gwp, mergeVars, pruneVars, parseVars, extractVars, discoverVars,
                   bootVars, durationVars, listVars, lookupVars>>

NextRemove == RemoveRun

SpecRemove == InitRemove /\ [][NextRemove]_vars

\* C27: remove issues `git worktree remove` only for the selected worktree,
\* when it is not main, not locked, clean or --force is given, and the user
\* confirmed or --yes is given; on every other path nothing is issued and
\* the worktrees are the same as before.
C27_RemoveOnlyWhenAllowed ==
    (cmd.called /\ cmd.kind = "remove") =>
        /\ cmd.gitlog # <<>> =>
              /\ IsSome(cmd.input.selected)
              /\ \A wt \in {Unwrap(cmd.input.selected)} :
                    /\ ~wt.is_main /\ ~wt.is_locked
                    /\ ~wt.is_dirty \/ cmd.input.force
                    /\ cmd.input.yes \/ cmd.input.answer = "yes"
                    /\ cmd.gitlog = <<GitWorktreeRemove(wt.path, cmd.input.force)>>
        /\ cmd.gitlog = <<>> => cmd.input.remaining = worktrees
        /\ \/ cmd.input.selected = None
           \/ Unwrap(cmd.input.selected).is_main
           \/ Unwrap(cmd.input.selected).is_locked
           \/ Unwrap(cmd.input.selected).is_dirty /\ ~cmd.input.force
           \/ ~cmd.input.yes /\ cmd.input.answer # "yes"
           => cmd.gitlog = <<>> /\ cmd.input.remaining = worktrees

\* C27 witness: `grove remove k --force --yes` where k is locked: nothing is
\* issued.
C27_Witness ==
    /\ cmd.called /\ cmd.kind = "remove"
    /\ cmd.input.name = Some(bK) /\ cmd.input.force /\ cmd.input.yes
    /\ cmd.input.selected = Some(wtK)
    /\ cmd.gitlog = <<>> /\ cmd.exit = "error"

\* match_worktree_by_name, worktree_manager.rs 321-348
MatchWorktreeByName(wts, name) ==
    LET normalized_name == TrimTrailingBranchSlashes(name)
        by_branch == FirstOf(wts, [i \in DOMAIN wts |-> wts[i].branch = normalized_name])
        by_directory == FirstOf(wts, [i \in DOMAIN wts |->
                                         /\ FileName(wts[i].path) # <<>>
                                         /\ FileName(wts[i].path) = normalized_name])
    IN  IF normalized_name = <<>> THEN None
        ELSE IF IsSome(by_branch) THEN by_branch
        ELSE IF IsSome(by_directory) THEN by_directory
        ELSE FirstOf(wts, [i \in DOMAIN wts |->
                              EndsWith(wts[i].branch, <<"/">> \o normalized_name)])

\* The worktrees the names are looked up in: the directory of one is named
\* as the branch of another, and two branches have a slash in them.
Checkout(path, branch) ==
    [path |-> path, branch |-> branch, head |-> <<"sha">>, created_at |-> 1000,
     is_dirty |-> FALSE, is_locked |-> FALSE, is_prunable |-> FALSE,
     is_main |-> branch \in MAIN_BRANCHES]

CheckoutPool ==
    {Checkout(<<"/", "w", "/", "x">>, <<"foo">>),
     Checkout(<<"/", "w", "/", "y">>, <<"x">>),
     Checkout(<<"/", "w", "/", "feature", "/", "my">>, <<"feature", "/", "my">>),
     Checkout(<<"/", "w", "/", "z">>, <<"other", "/", "x">>)}

LookupNames ==
    {<<"x">>, <<"y">>, <<"foo">>, <<"my">>, <<"feature", "/", "my">>, <<"q">>,
     <<"/", "w", "/", "x">>}

InitLookup ==
    /\ worktrees \in {l \in SeqsUpTo(CheckoutPool, MaxWorktrees) :
                         \A i, j \in DOMAIN l : i # j => l[i].path # l[j].path}
    /\ lookup_name \in LookupNames
    /\ lookups = NotCalled
    /\ opts = NoOptions /\ now = <<>> /\ prune = NotCalled
    /\ PathIdle /\ CreateIdle /\ MergeIdle /\ ParseIdle /\ ExtractIdle /\ DiscoverIdle
    /\ BootIdle /\ DurationIdle /\ ListIdle

\* The name is looked up as `go` and as `remove` do, as it is and with
\* slashes behind it.
LookupCall ==
    /\ ~lookups.called
    /\ \E slashes \in {<<"/">>, <<"/", "/">>} :
          lookups' = [called |-> TRUE,
                      go |-> MatchWorktreeByName(worktrees, lookup_name),
                      remove |-> FindWorktreeByIdentifier(worktrees, lookup_name),
                      go_slashes |->
                          MatchWorktreeByName(worktrees, lookup_name \o slashes),
                      remove_slashes |->
                          FindWorktreeByIdentifier(worktrees, lookup_name \o slashes)]
    /\ UNCHANGED <<lookup_name, pathVars, createVars, mergeVars, pruneVars, parseVars,
                   extractVars, discoverVars, bootVars, durationVars, listVars>>

NextLookup == LookupCall

SpecLookup == InitLookup /\ [][NextLookup]_vars

\* The name is the branch or the directory name of a worktree.
NamesBranchOrDirectory(wts, name) ==
    \E i \in DOMAIN wts : wts[i].branch = name \/ FileName(wts[i].path) = name

\* C28: for a name that is the branch or the directory name of a worktree,
\* the lookup of `go` and the lookup of `remove` return the same worktree,
\* and slashes behind the name change the result of neither.
C28_LookupsAgree ==
    lookups.called =>
        /\ NamesBranchOrDirectory(worktrees, lookup_name) => lookups.go = lookups.remove
        /\ lookups.go_slashes = lookups.go
        /\ lookups.remove_slashes = lookups.remove

-----------------------------------------------------------------------------
(***************************************************************************)
(* add_worktree (git/worktree_manager.rs), one call at a time.             *)
(***************************************************************************)
InitAddWorktree ==
    /\ cmd = NotCalled
    /\ PathIdle /\ MergeIdle /\ PruneIdle /\ ParseIdle /\ ExtractIdle /\ DiscoverIdle
    /\ BootIdle /\ DurationIdle /\ ListIdle /\ LookupIdle

\* One call add_worktree(worktree_path, branch_name, create_branch, track)
\* where git answers ans.
AddWorktreeCall ==
    /\ ~cmd.called
    /\ \E branch_name \in {bF, <<"x">>}, create_branch \in BOOLEAN,
          track \in {None} \cup {Some(t) : t \in TrackRefs \cup {<<"up", "/", "a", "/", "b">>}},
          ans \in GitAddAnswers :
          \A worktree_path \in {<<"/", "w", "/">> \o branch_name} :
          \A res \in {AddWorktree(worktree_path, branch_name, create_branch, track, ans)} :
             cmd' = CmdResult("add_worktree",
                              [worktree_path |-> worktree_path, branch_name |-> branch_name,
                               create_branch |-> create_branch, track |-> track,
                               ans |-> ans],
                              {}, res.log, IF res.ok THEN "ok" ELSE "error")
    /\ UNCHANGED <<fs, gwp, mergeVars, pruneVars, parseVars, extractVars, discoverVars,
                   bootVars, durationVars, listVars, lookupVars>>

NextAddWorktree == AddWorktreeCall

SpecAddWorktree == InitAddWorktree /\ [][NextAddWorktree]_vars

\* The places of the log where git is called with op.
Issued(log, op) == {i \in DOMAIN log : log[i].op = op}

\* The reference is of the form <remote>/<branch>, with or without
\* refs/remotes/ before it.
RemoteAndBranch(ref) ==
    LET rest == IF StartsWith(ref, RefsRemotes) THEN DropFirst(ref, Len(RefsRemotes))
                ELSE ref
    IN  /\ StartsWith(ref, RefsRemotes) \/ ~StartsWith(ref, <<"refs", "/">>)
        /\ 1 < IndexOf(rest, "/") /\ IndexOf(rest, "/") < Len(rest)

\* git has answered that the reference is there: as given, under its
\* canonical name, or after the fetch.
VerifiedToExist(ref, ans) ==
    \/ ans.refExists
    \/ RemoteAndBranch(ref) /\ ans.canonicalExists
    \/ RemoteAndBranch(ref) /\ ans.fetchOk /\ ans.existsAfterFetch

C30_InitRemovesOnlyItsOwnDirectory ==
    (cmd.called /\ cmd.kind = "init") =>
        \A creates \in {Issued(cmd.gitlog, "create_dir_all")} :
        \A removes \in {Issued(cmd.gitlog, "remove_dir_all")} :
        \A clones \in {Issued(cmd.gitlog, "clone")} :
            /\ \A r \in removes :
                  /\ ~cmd.input.dir_exists
                  /\ \E c \in creates : c < r /\ cmd.gitlog[c].path = cmd.gitlog[r].path
            /\ (clones # {} /\ cmd.exit = "error") => (removes # {} <=> creates # {})
            /\ cmd.exit = "initialized" => removes = {}
            /\ cmd.input.dir_exists => creates = {} /\ removes = {}
            /\ (cmd.input.existing \/ cmd.input.bare_exists)
                  => cmd.exit = "error" /\ cmd.gitlog = <<>>

\* C30 witness: the project directory was there, the configuration behind
\* the clone fails, and nothing is removed.
C30_Witness ==
    /\ cmd.called /\ cmd.kind = "init" /\ cmd.exit = "error"
    /\ cmd.input.dir_exists /\ ~cmd.input.bare_exists
    /\ Issued(cmd.gitlog, "config") # {}
    /\ Issued(cmd.gitlog, "remove_dir_all") = {}

====
